---- MODULE Spec2Model ----
(***************************************************************************)
(* Kernel-registry resolution of the inference runtime:                    *)
(* onnxruntime::KernelRegistryManager                                      *)
(* (core/framework/kernel_registry_manager.h).                             *)
(*                                                                         *)
(* The header gives the fields, GetKernelRegistriesByProviderType and the  *)
(* documented contracts of the other members; the bodies of the other      *)
(* members live in kernel_registry_manager.cc and are modelled from the    *)
(* specification text.                                                     *)
(***************************************************************************)
EXTENDS Integers, Sequences, FiniteSets, TLC

(***************************************************************************)
(* Bounds of the model.                                                    *)
(***************************************************************************)
\* cap on the length of custom_kernel_registries_
MaxCustom == 2
\* cap on the number of execution providers passed to one RegisterKernels
MaxProviders == 2
\* cap on the number of kernel-factory invocations that are counted
MaxFactoryCalls == 2
\* cap on the length of program_regions_
MaxRegions == 2
\* cap on the number of AcquireDeviceStreamCollection invocations counted
MaxAcquire == 2

(***************************************************************************)
(* The universe: provider types, operator types, kernel definitions,       *)
(* registries, nodes.                                                      *)
(***************************************************************************)
ProviderTypes == {"CPUExecutionProvider", "CUDAExecutionProvider"}
OpTypes == {"Add", "Mul"}

\* A kernel definition is (op type, provider type); definitions are numbered
\* 1..4.  The static kernel-def hash is a function of the definition alone, so
\* entries for one definition in two registries carry the same hash.
KernelDefs == 1 .. 4
DefOp(d) == IF d \in {1, 2} THEN "Add" ELSE "Mul"
DefProvider(d) == IF d \in {1, 3} THEN "CPUExecutionProvider" ELSE "CUDAExecutionProvider"
DefHash(d) == 1000 + d
Hashes == {DefHash(d) : d \in KernelDefs} \cup {999}

\* nullptr for std::shared_ptr<KernelRegistry>
NullRegistry == 0

\* The KernelRegistry objects of the process and the kernel definitions each
\* was built with (a registry is immutable once built).  There are two kinds
\* of registries (kernel_registry_manager.h:24-27): those the execution
\* providers hand out, and custom ones, which are objects of their own:
\*   1: the CPU provider's registry    {Add/CPU}
\*   2: the CUDA provider's registry   {Add/CUDA, Mul/CUDA}
\*   3: a custom registry              {Add/CPU, Add/CUDA}
\*   4: a custom registry              {Add/CPU, Mul/CUDA}
\*   5: the registry of a second CPU provider object   {Add/CPU}
\* Mul/CPU is implemented nowhere.
ProviderRegistries == {1, 2, 5}
CustomRegistries == {3, 4}
Registries == ProviderRegistries \cup CustomRegistries
RegistryDefs(r) ==
  CASE r = 1 -> {1}
    [] r = 2 -> {2, 4}
    [] r = 3 -> {1, 2}
    [] r = 4 -> {1, 4}
    [] r = 5 -> {1}
    [] OTHER -> {}

\* A registry a provider hands out holds kernels of that provider only
\* (kernel_registry_manager.h:100).
BelongsTo(r, type) ==
  r \in ProviderRegistries /\ \A d \in RegistryDefs(r) : DefProvider(d) = type

\* A KernelCreateInfo is owned by its registry: its identity is (registry,
\* definition).
NoInfo == [reg |-> 0, def |-> 0]
KernelCreateInfos == {[reg |-> r, def |-> d] : r \in Registries, d \in KernelDefs}
RegistryInfos(r) == {[reg |-> r, def |-> d] : d \in RegistryDefs(r)}

\* A graph node as the manager sees it: operator type and assigned provider.
Nodes == [op : OpTypes, ep : ProviderTypes]

VARIABLES
  provider_type_to_registry_,  \* set of <<provider type, registry>> map entries
  custom_kernel_registries_,   \* std::list, front first
  kernel_type_str_resolver_,   \* set of op types whose type strings resolve
  ret,                         \* what the last call returned to its caller
  factory_calls,               \* invocations of kernel_create_func so far
  factory_result,              \* what the last factory invocation produced
  registered,                  \* caller's log: registries in registration order
  seen,                        \* caller's log: first lookup result since the
                               \* last registration
  readers,                     \* reader threads inside SearchKernelRegistry
  program_counter_start_,      \* PartialGraphExecutionState: window start
  program_counter_end_,        \* PartialGraphExecutionState: window end
  program_regions_,            \* std::vector<ProgramRegion>, the region cache
  device_stream_collection_,   \* unique_ptr<DeviceStreamCollection> (0 = null)
  execution_context_,          \* unique_ptr<ExecutionContext> (NoContext = null)
  session_streams,             \* the session's side of the device streams
  instance,                    \* "alive", "failed" or "destroyed"
  pret,                        \* what the last PartialGraphExecutionState call
                               \* handed back
  region_plan,                 \* caller's log: the plan each region was built from
  xmma_kernel,                 \* a TFusedMultiHeadAttentionXMMAKernel object
  kret,                        \* what the last call on xmma_kernel returned
  mKernels,                    \* TFusedMHAKernelFactory: set of <<id, pointer>>
  kernel_lists,                \* the kernel lists allocated, by pointer
  s_mutex,                     \* thread holding the factory mutex, 0: none
  callers,                     \* threads inside getXMMAKernels
  graph,                       \* the Graph that ConstantSharing works on
  excluded_initializers_,      \* ConstantSharing: names never shared
  applied                      \* what the last ApplyImpl did

krm_vars == <<provider_type_to_registry_, custom_kernel_registries_,
              kernel_type_str_resolver_, ret, factory_calls, factory_result,
              registered, seen>>

pges_vars == <<program_counter_start_, program_counter_end_, program_regions_,
               device_stream_collection_, execution_context_, session_streams,
               instance, pret, region_plan>>

mha_vars == <<xmma_kernel, kret, mKernels, kernel_lists, s_mutex, callers>>

cs_vars == <<graph, excluded_initializers_, applied>>

vars == <<krm_vars, readers, pges_vars, mha_vars, cs_vars>>

\* nullptr for std::unique_ptr<OpKernel>
NoKernel == 0

\* The value a call hands back: Status (or "OK" for void and bool members),
\* the bool result, the KernelCreateInfo out-parameter, the OpKernel
\* out-parameter.
Returned(call, arg, status, found, out, kernel) ==
  [call |-> call, arg |-> arg, status |-> status, found |-> found,
   out |-> out, kernel |-> kernel]
NoRet == Returned("none", 0, "OK", FALSE, NoInfo, NoKernel)
\* The caller's note of the first lookup since the registries last changed:
\* the node, what came back, whether other nodes were looked up since, and
\* whether the node was then looked up again.
NoSeen == [node |-> 0, status |-> "OK", out |-> NoInfo, others |-> FALSE, again |-> FALSE]

(***************************************************************************)
(* Reader threads and the partial-graph execution state before any call.   *)
(***************************************************************************)
\* The threads that look kernels up once setup is complete
ReaderThreads == {1, 2}
\* pc: where the thread is inside SearchKernelRegistry; raced: whether the
\* access it is in the middle of overlaps a conflicting access of another thread
IdleReader ==
  [pc |-> "idle", node |-> 0, raced |-> FALSE, status |-> "OK", out |-> NoInfo]
ReadersIdle == readers = [t \in ReaderThreads |-> IdleReader]

\* nullptr for std::unique_ptr<ExecutionContext>
NoContext == [id |-> 0]
\* nothing returned yet
NoPRet == [call |-> "none"]

\* PartialGraphExecutionState as constructed, with a session that has handed
\* out no device stream collection
PGESConstructed ==
  /\ program_counter_start_ = 0
  /\ program_counter_end_ = 0
  /\ program_regions_ = <<>>
  /\ device_stream_collection_ = 0
  /\ execution_context_ = NoContext
  /\ session_streams = [acquired |-> 0, recycled |-> {}, deleted |-> {}]
  /\ instance = "alive"
  /\ pret = NoPRet
  /\ region_plan = <<>>

(***************************************************************************)
(* Fused multi-head attention kernel lists before any call                 *)
(* (tensorrt_fused_multihead_attention/fused_multihead_attention.h).       *)
(***************************************************************************)
kSM_75 == 75
kSM_80 == 80
kSM_86 == 86
kSM_87 == 87
\* enum Data_type (fused_multihead_attention_common.h)
DATA_TYPE_FP16 == 3
DATA_TYPE_INT8 == 6
\* 48 * 1024
DEFAULT_SMEM_SIZE == 49152

\* TFusedMultiHeadAttentionXMMAKernel(pMetaStart, nMetaCount, type, sm)
\* (lines 46-48): the members as constructed.  mFunctions is the set of its
\* entries [key, mMetaInfoIndex]; mModules the set of cubins loaded.
NewKernelList(type, sm) ==
  [mDataType |-> type, mSM |-> sm, mFunctions |-> {}, mValidSequences |-> {},
   mModules |-> {}]

NoKRet == [call |-> "none"]
CallerThreads == {1, 2}
\* A uint64_t is kept as its four 16-bit words, most significant first.
NoID == <<0, 0, 0, 0>>
\* A thread outside getXMMAKernels: the arguments and the outcome of its last
\* call (status "none" before the first), no id computed, no findIter.
IdleCaller ==
  [pc |-> "idle", type |-> 0, sm |-> 0, device |-> 0, id |-> NoID,
   findIter |-> 0, result |-> 0, status |-> "none"]

\* One kernel list constructed and not loaded; the factory singleton with no
\* kernel list built.
MHAConstructed ==
  /\ xmma_kernel = NewKernelList(DATA_TYPE_FP16, kSM_80)
  /\ kret = NoKRet
  /\ mKernels = {}
  /\ kernel_lists = <<>>
  /\ s_mutex = 0
  /\ callers = [t \in CallerThreads |-> IdleCaller]

\* A graph with no node and no initializer, a ConstantSharing transformer
\* excluding nothing, ApplyImpl not called.
EmptyGraph ==
  [initialized_tensors |-> <<>>, input_defs |-> <<>>,
   implicit_input_defs |-> <<>>, consumer_nodes |-> <<>>,
   node_args_ |-> {}, generated_node_arg_names_ |-> {},
   name_generator_ |-> 0]
NotApplied == [call |-> "none"]
CSConstructed ==
  /\ graph = EmptyGraph
  /\ excluded_initializers_ = {}
  /\ applied = NotApplied

(***************************************************************************)
(* provider_type_to_registry_: std::unordered_map<std::string,             *)
(* std::shared_ptr<KernelRegistry>>, kept as its set of entries.           *)
(***************************************************************************)
\* unordered_map::find(type): the entries with that key (none = end()).
MapFind(map, type) == {e \in map : e[1] = type}

\* unordered_map::insert(make_pair(type, registry)): no effect if the key is there.
MapInsert(map, type, registry) ==
  IF MapFind(map, type) # {} THEN map ELSE map \cup {<<type, registry>>}

(***************************************************************************)
(* GetKernelRegistriesByProviderType (kernel_registry_manager.h:53-61).    *)
(***************************************************************************)
Reverse(list) == [i \in 1 .. Len(list) |-> list[Len(list) + 1 - i]]

\* Faulty variant: each custom registry is inserted at the front of the result.
GetKernelRegistriesByProviderType_InsertFront(type) ==
  LET result == Reverse(custom_kernel_registries_)
      iter == MapFind(provider_type_to_registry_, type)
  IN IF iter # {}
       THEN Append(result, (CHOOSE e \in iter : TRUE)[2])
       ELSE result

\* Faulty variant: the provider-type registry is pushed before the custom ones.
GetKernelRegistriesByProviderType_ProviderFirst(type) ==
  LET iter == MapFind(provider_type_to_registry_, type)
  IN IF iter # {}
       THEN <<(CHOOSE e \in iter : TRUE)[2]>> \o custom_kernel_registries_
       ELSE custom_kernel_registries_

\* Faulty variant: the provider-type registry is left out.
GetKernelRegistriesByProviderType_CustomOnly(type) ==
  custom_kernel_registries_

\* Faulty variant: the map is not searched by key, its first entry is taken.
GetKernelRegistriesByProviderType_AnyEntry(type) ==
  LET result == custom_kernel_registries_
      iter == provider_type_to_registry_
  IN IF iter # {}
       THEN Append(result, (CHOOSE e \in iter : TRUE)[2])
       ELSE result

GetKernelRegistriesByProviderType(type) ==
  LET result == custom_kernel_registries_
      iter == MapFind(provider_type_to_registry_, type)
  IN IF iter # {}
       THEN Append(result, (CHOOSE e \in iter : TRUE)[2])
       ELSE result

(***************************************************************************)
(* KernelRegistry lookups (the registry is a collaborator: only its        *)
(* interface is used).                                                     *)
(***************************************************************************)
\* KernelRegistry::TryFindKernel(node, expected provider, resolver): the entry
\* of registry r for the node's op type and the provider, provided the op's
\* type-constraint strings resolve; NoInfo when there is none.
TryFindKernel(r, op, provider, resolver) ==
  LET hits == {d \in RegistryDefs(r) :
                 DefOp(d) = op /\ DefProvider(d) = provider /\ op \in resolver}
  IN IF hits = {} THEN NoInfo ELSE [reg |-> r, def |-> CHOOSE d \in hits : TRUE]

\* KernelRegistry::TryFindKernelByHash(hash)
TryFindKernelByHash(r, hash) ==
  LET hits == {d \in RegistryDefs(r) : DefHash(d) = hash}
  IN IF hits = {} THEN NoInfo ELSE [reg |-> r, def |-> CHOOSE d \in hits : TRUE]

\* Given what the lookup yields for each registry of a list, in list order:
\* the index of the first registry for which it succeeds; 0 when the loop
\* runs to the end.
FirstHit(found) ==
  LET hits == {i \in 1 .. Len(found) : found[i] # NoInfo}
  IN IF hits = {} THEN 0 ELSE CHOOSE i \in hits : \A j \in hits : i <= j

(***************************************************************************)
(* RegisterKernels(execution_providers)                                    *)
(***************************************************************************)
\* An execution provider as RegisterKernels sees it: Type() and
\* GetKernelRegistry() (which may be null).
ExecutionProviderSet ==
  {p \in [type : ProviderTypes, registry : Registries \cup {NullRegistry}] :
     p.registry # NullRegistry => BelongsTo(p.registry, p.type)}
ExecutionProvidersInputs ==
  UNION {[1 .. n -> ExecutionProviderSet] : n \in 1 .. MaxProviders}

\* The loop over the providers from position i on: a provider type already in
\* the map ends the call with FAIL; a provider without a registry is skipped.
\* Faulty variant: no check for a provider type that is mapped already; the
\* new registry replaces the old one.
RECURSIVE RegisterKernelsFrom_Overwrite(_, _, _)
RegisterKernelsFrom_Overwrite(map, providers, i) ==
  IF i > Len(providers) THEN [map |-> map, status |-> "OK"]
  ELSE IF providers[i].registry = NullRegistry
    THEN RegisterKernelsFrom_Overwrite(map, providers, i + 1)
  ELSE RegisterKernelsFrom_Overwrite(
         (map \ MapFind(map, providers[i].type))
            \cup {<<providers[i].type, providers[i].registry>>},
         providers, i + 1)

RECURSIVE RegisterKernelsFrom(_, _, _)
RegisterKernelsFrom(map, providers, i) ==
  IF i > Len(providers) THEN [map |-> map, status |-> "OK"]
  ELSE IF MapFind(map, providers[i].type) # {} THEN [map |-> map, status |-> "FAIL"]
  ELSE IF providers[i].registry = NullRegistry
    THEN RegisterKernelsFrom(map, providers, i + 1)
  ELSE RegisterKernelsFrom(MapInsert(map, providers[i].type, providers[i].registry),
                           providers, i + 1)

RegisterKernelsResult(map, providers) == RegisterKernelsFrom(map, providers, 1)

\* provider->Type() of the providers passed
ProviderTypesOf(providers) == {providers[i].type : i \in DOMAIN providers}

\* provider->GetKernelRegistry() of the providers passed, by provider type
RegistriesOffered(providers) ==
  {<<providers[i].type, providers[i].registry>> : i \in DOMAIN providers}

RegisterKernels(providers) ==
  LET r == RegisterKernelsResult(provider_type_to_registry_, providers)
  IN /\ provider_type_to_registry_' = r.map
     /\ ret' = Returned("RegisterKernels", RegistriesOffered(providers),
                       r.status, FALSE, NoInfo, NoKernel)
     /\ seen' = IF r.map = provider_type_to_registry_ THEN seen ELSE NoSeen
     /\ UNCHANGED <<custom_kernel_registries_, kernel_type_str_resolver_,
                    factory_calls, factory_result, registered>>
     /\ UNCHANGED <<readers, pges_vars, mha_vars, cs_vars>>

(***************************************************************************)
(* RegisterKernelRegistry(kernel_registry)                                 *)
(***************************************************************************)
\* Faulty variant: push_back
PushFront_Back(list, registry) == Append(list, registry)

\* std::list::push_front
PushFront(list, registry) == <<registry>> \o list

RegisterKernelRegistryResult(list, registry) ==
  IF registry = NullRegistry THEN list ELSE PushFront(list, registry)

RegisterKernelRegistry(registry) ==
  /\ registry # NullRegistry => Len(custom_kernel_registries_) < MaxCustom
  /\ custom_kernel_registries_' =
        RegisterKernelRegistryResult(custom_kernel_registries_, registry)
  /\ ret' = Returned("RegisterKernelRegistry", 0, "OK", FALSE, NoInfo, NoKernel)
  /\ registered' = IF registry = NullRegistry THEN registered
                   ELSE Append(registered, registry)
  /\ seen' = IF registry = NullRegistry THEN seen ELSE NoSeen
  /\ UNCHANGED <<provider_type_to_registry_, kernel_type_str_resolver_,
                 factory_calls, factory_result>>
  /\ UNCHANGED <<readers, pges_vars, mha_vars, cs_vars>>

(***************************************************************************)
(* SetKernelTypeStrResolver (kernel_registry_manager.h:89-91)              *)
(***************************************************************************)
SetKernelTypeStrResolver(kernel_type_str_resolver) ==
  /\ kernel_type_str_resolver_' = kernel_type_str_resolver
  /\ ret' = Returned("SetKernelTypeStrResolver", 0, "OK", FALSE, NoInfo, NoKernel)
  /\ UNCHANGED <<provider_type_to_registry_, custom_kernel_registries_,
                 factory_calls, factory_result, registered, seen>>
  /\ UNCHANGED <<readers, pges_vars, mha_vars, cs_vars>>

(***************************************************************************)
(* SearchKernelRegistry(node, out kernel_create_info)                      *)
(***************************************************************************)
\* Faulty variant: the cache is not filled before the lookup.
EnsureKernelTypeStrResolvesForNodeOpSchema_Skip(resolver, node) == resolver

\* EnsureKernelTypeStrResolvesForNodeOpSchema (kernel_registry_manager.h:96-98,
\* 106-112): in a full build the resolver is a cache filled during the const
\* lookup, so the node's op resolves from then on.
EnsureKernelTypeStrResolvesForNodeOpSchema(resolver, node) == resolver \cup {node.op}

\* Faulty variant: the registry of the node's provider type is not consulted.
SearchKernelRegistryResult_CustomOnly(list, map, resolver, node) ==
  LET Lookup(r) == TryFindKernel(r, node.op, node.ep, resolver)
      i == FirstHit([k \in 1 .. Len(list) |-> Lookup(list[k])])
  IN IF i # 0 THEN [status |-> "OK", out |-> Lookup(list[i])]
     ELSE [status |-> "NOT_IMPLEMENTED", out |-> NoInfo]

\* Custom registries front to back, then the registry of the node's provider
\* type; the first entry found wins.  NOT_IMPLEMENTED is "kernel not found".
SearchKernelRegistryResult(list, map, resolver, node) ==
  LET Lookup(r) == TryFindKernel(r, node.op, node.ep, resolver)
      i == FirstHit([k \in 1 .. Len(list) |-> Lookup(list[k])])
      iter == MapFind(map, node.ep)
      p == IF iter = {} THEN NullRegistry ELSE (CHOOSE e \in iter : TRUE)[2]
  IN IF i # 0 THEN [status |-> "OK", out |-> Lookup(list[i])]
     ELSE IF p # NullRegistry /\ Lookup(p) # NoInfo
       THEN [status |-> "OK", out |-> Lookup(p)]
     ELSE [status |-> "NOT_IMPLEMENTED", out |-> NoInfo]

SearchKernelRegistry(node) ==
  LET resolver == EnsureKernelTypeStrResolvesForNodeOpSchema(kernel_type_str_resolver_, node)
      r == SearchKernelRegistryResult(custom_kernel_registries_,
                                      provider_type_to_registry_, resolver, node)
  IN /\ kernel_type_str_resolver_' = resolver
     /\ ret' = Returned("SearchKernelRegistry", node, r.status, FALSE, r.out, NoKernel)
     /\ seen' = IF seen = NoSeen
                  THEN [node |-> node, status |-> r.status, out |-> r.out,
                        others |-> FALSE, again |-> FALSE]
                ELSE IF seen.node # node THEN [seen EXCEPT !.others = TRUE]
                ELSE [seen EXCEPT !.again = seen.others]
     /\ UNCHANGED <<provider_type_to_registry_, custom_kernel_registries_,
                    factory_calls, factory_result, registered>>
     /\ UNCHANGED <<readers, pges_vars, mha_vars, cs_vars>>

(***************************************************************************)
(* HasImplementationOf(r, node, provider_type)                             *)
(***************************************************************************)
\* KernelRegistry::HasImplementationOf(registry, node, provider_type)
RegistryHasImplementationOf(r, op, provider_type) ==
  \E d \in RegistryDefs(r) : DefOp(d) = op /\ DefProvider(d) = provider_type

HasImplementationOfResult(op, provider_type) ==
  LET kernel_registries == GetKernelRegistriesByProviderType(provider_type)
  IN \E i \in 1 .. Len(kernel_registries) :
        RegistryHasImplementationOf(kernel_registries[i], op, provider_type)

HasImplementationOf(node, provider_type) ==
  /\ ret' = Returned("HasImplementationOf", <<node.op, provider_type>>, "OK",
                     HasImplementationOfResult(node.op, provider_type), NoInfo, NoKernel)
  /\ UNCHANGED <<provider_type_to_registry_, custom_kernel_registries_,
                 kernel_type_str_resolver_, factory_calls, factory_result,
                 registered, seen>>
  /\ UNCHANGED <<readers, pges_vars, mha_vars, cs_vars>>

(***************************************************************************)
(* SearchKernelRegistriesByHash(kernel_def_hash, out kernel_create_info)   *)
(***************************************************************************)
\* Faulty variant: the provider-type registries are searched first.
SearchKernelRegistriesByHashResults_ProviderFirst(list, map, hash) ==
  LET Lookup(r) == TryFindKernelByHash(r, hash)
      i == FirstHit([k \in 1 .. Len(list) |-> Lookup(list[k])])
      fromMap == {Lookup(e[2]) : e \in {x \in map : Lookup(x[2]) # NoInfo}}
  IN IF fromMap # {} THEN fromMap
     ELSE IF i # 0 THEN {Lookup(list[i])}
     ELSE {}

\* The entries the call may hand back: that of the first custom registry
\* holding the hash; if there is none, that of a provider-type registry
\* holding it (the map is unordered, so any of them).
SearchKernelRegistriesByHashResults(list, map, hash) ==
  LET Lookup(r) == TryFindKernelByHash(r, hash)
      i == FirstHit([k \in 1 .. Len(list) |-> Lookup(list[k])])
  IN IF i # 0 THEN {Lookup(list[i])}
     ELSE {Lookup(e[2]) : e \in {x \in map : Lookup(x[2]) # NoInfo}}

SearchKernelRegistriesByHash(kernel_def_hash) ==
  LET outs == SearchKernelRegistriesByHashResults(custom_kernel_registries_,
                provider_type_to_registry_, kernel_def_hash)
  IN /\ IF outs = {}
          THEN ret' = Returned("SearchKernelRegistriesByHash", kernel_def_hash, "OK",
                               FALSE, NoInfo, NoKernel)
          ELSE \E out \in outs :
                 ret' = Returned("SearchKernelRegistriesByHash", kernel_def_hash, "OK",
                                 TRUE, out, NoKernel)
     /\ UNCHANGED <<provider_type_to_registry_, custom_kernel_registries_,
                    kernel_type_str_resolver_, factory_calls, factory_result,
                    registered, seen>>
     /\ UNCHANGED <<readers, pges_vars, mha_vars, cs_vars>>

(***************************************************************************)
(* CreateKernel(node, execution_provider, session_state, kernel_create_info,*)
(*              out)                                                       *)
(***************************************************************************)
\* kernel_create_info.kernel_create_func: builds the kernel of the entry's
\* definition, or rejects the node's attributes.
KernelCreateFunc(info, attributes_valid) ==
  IF attributes_valid THEN [status |-> "OK", kernel |-> info.def]
  ELSE [status |-> "INVALID_ARGUMENT", kernel |-> NoKernel]

\* Faulty variant: a failed construction is attempted a second time.
CreateKernelInvocations_Retry(info, attributes_valid) ==
  IF KernelCreateFunc(info, attributes_valid).status = "OK"
    THEN <<KernelCreateFunc(info, attributes_valid)>>
    ELSE <<KernelCreateFunc(info, attributes_valid),
           KernelCreateFunc(info, attributes_valid)>>

\* The factory outcomes one CreateKernel call produces, in order.
CreateKernelInvocations(info, attributes_valid) ==
  <<KernelCreateFunc(info, attributes_valid)>>

\* What CreateKernel hands back, given the factory's last outcome.
CreateKernelReturn(outcome) == outcome

CreateKernel(info, attributes_valid) ==
  LET calls == CreateKernelInvocations(info, attributes_valid)
      r == CreateKernelReturn(calls[Len(calls)])
  IN /\ factory_calls + Len(calls) <= MaxFactoryCalls
     /\ factory_calls' = factory_calls + Len(calls)
     /\ factory_result' = calls[Len(calls)]
     /\ ret' = Returned("CreateKernel", factory_calls, r.status, FALSE, info, r.kernel)
     /\ UNCHANGED <<provider_type_to_registry_, custom_kernel_registries_,
                    kernel_type_str_resolver_, registered, seen>>
     /\ UNCHANGED <<readers, pges_vars, mha_vars, cs_vars>>

(***************************************************************************)
(* The manager from construction on.                                       *)
(***************************************************************************)
KRMConstructed ==
  /\ provider_type_to_registry_ = {}
  /\ custom_kernel_registries_ = <<>>
  /\ kernel_type_str_resolver_ = {}
  /\ ret = NoRet
  /\ factory_calls = 0
  /\ factory_result = [status |-> "OK", kernel |-> NoKernel]
  /\ registered = <<>>
  /\ seen = NoSeen

InitKRM ==
  /\ KRMConstructed
  /\ ReadersIdle
  /\ PGESConstructed
  /\ MHAConstructed
  /\ CSConstructed

NextKRM ==
  \/ \E providers \in ExecutionProvidersInputs : RegisterKernels(providers)
  \/ \E registry \in CustomRegistries \cup {NullRegistry} :
        RegisterKernelRegistry(registry)
  \/ \E resolver \in SUBSET OpTypes : SetKernelTypeStrResolver(resolver)
  \/ \E node \in Nodes : SearchKernelRegistry(node)
  \/ \E node \in Nodes, provider_type \in ProviderTypes :
        HasImplementationOf(node, provider_type)
  \/ \E kernel_def_hash \in Hashes : SearchKernelRegistriesByHash(kernel_def_hash)

SpecKRM == InitKRM /\ [][NextKRM]_vars

\* Session-state finalisation: each node's kernel is looked up and then built
\* from the entry found.
NextCreateKernel ==
  \/ \E registry \in CustomRegistries : RegisterKernelRegistry(registry)
  \/ \E node \in Nodes : SearchKernelRegistry(node)
  \/ \E attributes_valid \in BOOLEAN :
        /\ ret.call = "SearchKernelRegistry"
        /\ ret.status = "OK"
        /\ CreateKernel(ret.out, attributes_valid)

SpecCreateKernel == InitKRM /\ [][NextCreateKernel]_vars

(***************************************************************************)
(* Properties of the registry manager.                                     *)
(***************************************************************************)
\* C1: whatever the calls so far, GetKernelRegistriesByProviderType lists the
\* custom registries most recently registered first, and only then the
\* registry of the provider type: after RegisterKernelRegistry(A) and then
\* RegisterKernelRegistry(B) the order is B, A, provider registry.
C1_LifoSearchOrder ==
  \A type \in ProviderTypes :
    LET order == GetKernelRegistriesByProviderType(type)
        n == Len(registered)
    IN /\ Len(order) >= n
       /\ \A k \in 1 .. n : order[n + 1 - k] = registered[k]
       /\ \A i \in n + 1 .. Len(order) : order[i] \in ProviderRegistries

\* two different custom registries were registered, 3 and then 4, and the CPU
\* provider has its registry: the order is 4, 3, 1
C1_Witness ==
  /\ registered = <<3, 4>>
  /\ GetKernelRegistriesByProviderType("CPUExecutionProvider") = <<4, 3, 1>>

\* C2: every custom registry comes before the provider-type registry in the
\* search order, whether RegisterKernels ran before or after the
\* RegisterKernelRegistry calls.
C2_CustomOutranksProvider ==
  \A e \in provider_type_to_registry_ :
    LET order == GetKernelRegistriesByProviderType(e[1])
    IN /\ Len(order) > 0
       /\ order[Len(order)] = e[2]
       /\ \A k \in 1 .. Len(registered) :
            \E i \in 1 .. Len(order) - 1 : order[i] = registered[k]

\* RegisterKernels put both provider registries in the map after the custom
\* registries were registered (the call returned OK for both types, so neither
\* was mapped before it, and no custom registry can be added any more)
C2_Witness ==
  /\ ret.call = "RegisterKernels"
  /\ ret.status = "OK"
  /\ {o[1] : o \in ret.arg} = ProviderTypes
  /\ Cardinality(provider_type_to_registry_) = 2
  /\ Len(registered) = MaxCustom
  /\ GetKernelRegistriesByProviderType("CUDAExecutionProvider")[MaxCustom + 1] = 2

\* Registry r has an entry for (op type, provider type)
Implements(r, op, provider) ==
  \E d \in RegistryDefs(r) : DefOp(d) = op /\ DefProvider(d) = provider

\* The custom registries registered so far that implement (op, provider), by
\* their place in the registration log
MatchingCustom(op, provider) ==
  {k \in 1 .. Len(registered) : Implements(registered[k], op, provider)}

\* The registries mapped to provider type `type` that implement (op, provider)
MatchingProvider(op, provider, type) ==
  {e[2] : e \in {x \in provider_type_to_registry_ :
                   x[1] = type /\ Implements(x[2], op, provider)}}

\* C3: when a custom registry has an entry for the node, SearchKernelRegistry
\* returns OK and the entry of the most recently registered such custom
\* registry, also when the registry of the node's provider type has an entry
\* for it too; registries with overlapping entries are accepted.
C3_CustomEntryWins ==
  ret.call = "SearchKernelRegistry" =>
    LET node == ret.arg
        custom == MatchingCustom(node.op, node.ep)
    IN custom # {} =>
         LET last == CHOOSE k \in custom : \A j \in custom : j <= k
         IN /\ ret.status = "OK"
            /\ ret.out.reg = registered[last]
            /\ ret.out.reg \in CustomRegistries
            /\ DefOp(ret.out.def) = node.op
            /\ DefProvider(ret.out.def) = node.ep

\* Add on CPU is looked up while the CPU provider's registry 1 and the custom
\* registries 4 and 3 (registered in that order) all have an entry for it:
\* the entry of registry 3 comes back
C3_Witness ==
  /\ ret.call = "SearchKernelRegistry"
  /\ ret.arg = [op |-> "Add", ep |-> "CPUExecutionProvider"]
  /\ registered = <<4, 3>>
  /\ <<"CPUExecutionProvider", 1>> \in provider_type_to_registry_
  /\ ret.status = "OK"
  /\ ret.out = [reg |-> 3, def |-> 1]

\* C4: a RegisterKernels call that names a provider type already in the map
\* returns an error, whatever registry the provider offers, and every
\* provider type mapped before the call is mapped to the same registry after
\* it; a provider type never has two registries.
C4_DuplicateProviderFails ==
  /\ [](\A e1, e2 \in provider_type_to_registry_ : e1[1] = e2[1] => e1 = e2)
  /\ [][ret'.call = "RegisterKernels" =>
           /\ \A e \in provider_type_to_registry_ :
                 MapFind(provider_type_to_registry_', e[1]) = {e}
           /\ (\E o \in ret'.arg : MapFind(provider_type_to_registry_, o[1]) # {})
                 => ret'.status = "FAIL"
           /\ ret'.status \in {"OK", "FAIL"}]_vars

\* RegisterKernels was called with a second CPU provider, which offers
\* registry 5, and the CUDA provider, with CPU already mapped to registry 1:
\* it failed, CPU is still mapped to registry 1 and CUDA was not added
C4_Witness ==
  /\ ret.call = "RegisterKernels"
  /\ ret.arg = {<<"CPUExecutionProvider", 5>>, <<"CUDAExecutionProvider", 2>>}
  /\ ret.status = "FAIL"
  /\ provider_type_to_registry_ = {<<"CPUExecutionProvider", 1>>}

\* C5: SearchKernelRegistry returns "kernel not found" and no entry exactly
\* when no custom registry and not the registry of the node's provider type
\* has an entry for the node; the lookup leaves the map and the list of
\* registries as they were.
C5_NotFound ==
  /\ [](ret.call = "SearchKernelRegistry" =>
          LET node == ret.arg
              none == /\ MatchingCustom(node.op, node.ep) = {}
                      /\ MatchingProvider(node.op, node.ep, node.ep) = {}
          IN /\ (ret.status = "NOT_IMPLEMENTED") <=> none
             /\ (ret.status = "OK") <=> ~none
             /\ (ret.out = NoInfo) <=> none)
  /\ [][ret'.call = "SearchKernelRegistry" =>
           /\ provider_type_to_registry_' = provider_type_to_registry_
           /\ custom_kernel_registries_' = custom_kernel_registries_]_vars

\* Mul on CPU is looked up with a custom registry and both provider
\* registries in place, none of which implements it
C5_Witness ==
  /\ ret.call = "SearchKernelRegistry"
  /\ ret.arg = [op |-> "Mul", ep |-> "CPUExecutionProvider"]
  /\ ret.status = "NOT_IMPLEMENTED"
  /\ ret.out = NoInfo
  /\ Len(custom_kernel_registries_) > 0
  /\ Cardinality(provider_type_to_registry_) = 2

\* C6: as long as no registry is registered, a lookup of a node returns what
\* the first lookup of that node returned, however many other nodes were
\* looked up in between and whatever the resolver cache held.
C6_Deterministic ==
  (ret.call = "SearchKernelRegistry" /\ seen.node = ret.arg) =>
     /\ ret.status = seen.status
     /\ ret.out = seen.out

\* a node that has a kernel is looked up again after lookups of other nodes,
\* with a resolver cache that meanwhile holds both op types
C6_Witness ==
  /\ ret.call = "SearchKernelRegistry"
  /\ seen.node = ret.arg
  /\ seen.again
  /\ seen.out # NoInfo
  /\ kernel_type_str_resolver_ = OpTypes

\* C7: HasImplementationOf(node, provider_type) is true iff a custom registry
\* or the registry of provider_type has an entry for the node's op and
\* provider_type, so false before such a registry is registered and true
\* after; the query changes neither the map nor the list of registries.
C7_HasImplementationOf ==
  /\ [](ret.call = "HasImplementationOf" =>
          LET op == ret.arg[1]
              provider_type == ret.arg[2]
          IN ret.found <=>
               \/ MatchingCustom(op, provider_type) # {}
               \/ MatchingProvider(op, provider_type, provider_type) # {})
  /\ [][ret'.call = "HasImplementationOf" =>
           /\ provider_type_to_registry_' = provider_type_to_registry_
           /\ custom_kernel_registries_' = custom_kernel_registries_
           /\ kernel_type_str_resolver_' = kernel_type_str_resolver_]_vars

\* Mul on CUDA is implemented once the CUDA provider's registry is mapped,
\* with no custom registry at all
C7_Witness ==
  /\ ret.call = "HasImplementationOf"
  /\ ret.arg = <<"Mul", "CUDAExecutionProvider">>
  /\ ret.found
  /\ registered = <<>>
  /\ provider_type_to_registry_ = {<<"CUDAExecutionProvider", 2>>}

\* The registries in use that hold an entry with the hash
HashInCustom(hash) ==
  {k \in 1 .. Len(registered) : \E d \in RegistryDefs(registered[k]) : DefHash(d) = hash}
HashInProvider(hash) ==
  {e[2] : e \in {x \in provider_type_to_registry_ :
                   \E d \in RegistryDefs(x[2]) : DefHash(d) = hash}}

\* C8: SearchKernelRegistriesByHash(hash) returns true iff a custom or a
\* provider-type registry holds an entry with the hash; the entry returned
\* has that hash and is the one of the most recently registered custom
\* registry holding it, or of a provider-type registry if no custom one does.
C8_SearchByHash ==
  ret.call = "SearchKernelRegistriesByHash" =>
    LET hash == ret.arg
        custom == HashInCustom(hash)
        provider == HashInProvider(hash)
    IN /\ ret.found <=> (custom # {} \/ provider # {})
       /\ ~ret.found => ret.out = NoInfo
       /\ ret.found => /\ ret.out \in RegistryInfos(ret.out.reg)
                       /\ DefHash(ret.out.def) = hash
       /\ custom # {} =>
            ret.out.reg = registered[CHOOSE k \in custom : \A j \in custom : j <= k]
       /\ (custom = {} /\ provider # {}) => ret.out.reg \in provider

\* the hash of Add/CUDA is held by the CUDA provider's registry 2 and by the
\* custom registry 3: the entry of registry 3 comes back
C8_Witness ==
  /\ ret.call = "SearchKernelRegistriesByHash"
  /\ ret.arg = DefHash(2)
  /\ <<"CUDAExecutionProvider", 2>> \in provider_type_to_registry_
  /\ registered = <<3, 4>>
  /\ ret.found
  /\ ret.out = [reg |-> 3, def |-> 2]

\* C9: a CreateKernel call invokes the factory once and hands back what the
\* factory produced: its status as it is, a kernel only with OK.
C9_CreateKernelPropagates ==
  ret.call = "CreateKernel" =>
    /\ factory_calls = ret.arg + 1
    /\ ret.status = factory_result.status
    /\ ret.kernel = factory_result.kernel
    /\ ret.status \in {"OK", "INVALID_ARGUMENT"}
    /\ (ret.status # "OK") <=> (ret.kernel = NoKernel)
    /\ ret.status = "OK" => ret.kernel = ret.out.def

\* the second CreateKernel call fails in the factory: two invocations in all,
\* the factory's INVALID_ARGUMENT returned, no kernel
C9_Witness ==
  /\ ret.call = "CreateKernel"
  /\ ret.arg = 1
  /\ factory_calls = 2
  /\ ret.status = "INVALID_ARGUMENT"
  /\ factory_result.status = "INVALID_ARGUMENT"
  /\ ret.kernel = NoKernel

\* C10: the result of GetKernelRegistriesByProviderType(type) is every custom
\* registry and then type's registry if type is mapped: its length is the
\* number of custom registries plus one or plus zero, it holds no null, and
\* it holds no registry mapped to another provider type.
C10_ResultShape ==
  \A type \in ProviderTypes :
    LET order == GetKernelRegistriesByProviderType(type)
        mapped == \E e \in provider_type_to_registry_ : e[1] = type
    IN /\ Len(order) = Len(custom_kernel_registries_) + (IF mapped THEN 1 ELSE 0)
       /\ \A i \in 1 .. Len(custom_kernel_registries_) :
            order[i] = custom_kernel_registries_[i]
       /\ \A i \in 1 .. Len(order) : order[i] # NullRegistry
       /\ \A e \in provider_type_to_registry_ :
            e[1] # type =>
              \A i \in 1 .. Len(order) : order[i] # e[2]

\* a null registry was passed, only CUDA is mapped and one custom registry is
\* registered: one entry for CPU, two for CUDA
C10_Witness ==
  /\ ret.call = "RegisterKernelRegistry"
  /\ Len(registered) < Len(custom_kernel_registries_) + 1
  /\ custom_kernel_registries_ = <<3>>
  /\ provider_type_to_registry_ = {<<"CUDAExecutionProvider", 2>>}
  /\ GetKernelRegistriesByProviderType("CPUExecutionProvider") = <<3>>
  /\ GetKernelRegistriesByProviderType("CUDAExecutionProvider") = <<3, 2>>

(***************************************************************************)
(* SearchKernelRegistry called from several threads once setup is         *)
(* complete.  A call reads the resolver cache ("ensure"), populates it when *)
(* the node's op is not resolved yet ("register"), then matches the        *)
(* registries using it ("match").  No lock is taken, so the accesses of    *)
(* different threads interleave; an access that overlaps a write of        *)
(* another thread is a data race and can see, or leave, any cache content. *)
(***************************************************************************)
\* The accesses to kernel_type_str_resolver_ a thread can be in the middle of
ResolverReads == {"ensure", "match"}
ResolverWrites == {"register"}

\* Some thread other than t is in the middle of a write of the resolver
OtherWriting(t) ==
  \E u \in ReaderThreads \ {t} : readers[u].pc \in ResolverWrites

\* What a read of the resolver by thread t can see
ResolverViews(t) ==
  IF readers[t].raced THEN SUBSET OpTypes ELSE {kernel_type_str_resolver_}

\* Thread t enters SearchKernelRegistry(node) and starts reading the cache.
BeginSearch(t, node) ==
  /\ readers[t].pc = "idle"
  /\ readers' = [readers EXCEPT ![t] =
                   [pc |-> "ensure", node |-> node, raced |-> OtherWriting(t),
                    status |-> "OK", out |-> NoInfo]]
  /\ UNCHANGED <<krm_vars, pges_vars, mha_vars, cs_vars>>

\* EnsureKernelTypeStrResolvesForNodeOpSchema: the read of the cache ends;
\* a resolved op goes on to matching, an unresolved one starts the write.
EnsureCheck(t) ==
  /\ readers[t].pc = "ensure"
  /\ \E view \in ResolverViews(t) :
       IF readers[t].node.op \in view
         THEN readers' = [readers EXCEPT ![t].pc = "match",
                                         ![t].raced = OtherWriting(t)]
         ELSE readers' =
                [u \in ReaderThreads |->
                   IF u = t
                     THEN [readers[u] EXCEPT !.pc = "register",
                                             !.raced = OtherWriting(t)]
                   ELSE IF readers[u].pc \in ResolverReads \cup ResolverWrites
                     THEN [readers[u] EXCEPT !.raced = TRUE]
                   ELSE readers[u]]
  /\ UNCHANGED <<krm_vars, pges_vars, mha_vars, cs_vars>>

\* The write of the cache ends and the thread starts matching.
RegisterNodeOpSchema(t) ==
  /\ readers[t].pc = "register"
  /\ kernel_type_str_resolver_' \in
       IF readers[t].raced
         THEN SUBSET OpTypes
         ELSE {EnsureKernelTypeStrResolvesForNodeOpSchema(kernel_type_str_resolver_,
                                                          readers[t].node)}
  /\ readers' = [readers EXCEPT ![t].pc = "match", ![t].raced = OtherWriting(t)]
  /\ UNCHANGED <<provider_type_to_registry_, custom_kernel_registries_, ret,
                 factory_calls, factory_result, registered, seen>>
  /\ UNCHANGED <<pges_vars, mha_vars, cs_vars>>

\* The registries are matched with the resolver as read, and the call returns.
MatchAndReturn(t) ==
  /\ readers[t].pc = "match"
  /\ \E view \in ResolverViews(t) :
       LET r == SearchKernelRegistryResult(custom_kernel_registries_,
                                           provider_type_to_registry_, view,
                                           readers[t].node)
       IN readers' = [readers EXCEPT ![t] =
                        [pc |-> "idle", node |-> readers[t].node, raced |-> FALSE,
                         status |-> r.status, out |-> r.out]]
  /\ UNCHANGED <<krm_vars, pges_vars, mha_vars, cs_vars>>

\* Setup is complete: both provider registries and one custom registry are
\* registered; the resolver holds what was resolved so far.
InitReaders ==
  /\ provider_type_to_registry_ =
       {<<"CPUExecutionProvider", 1>>, <<"CUDAExecutionProvider", 2>>}
  /\ custom_kernel_registries_ = <<3>>
  /\ kernel_type_str_resolver_ \in SUBSET OpTypes
  /\ ret = NoRet
  /\ factory_calls = 0
  /\ factory_result = [status |-> "OK", kernel |-> NoKernel]
  /\ registered = <<3>>
  /\ seen = NoSeen
  /\ ReadersIdle
  /\ PGESConstructed
  /\ MHAConstructed
  /\ CSConstructed

NextReaders ==
  \/ \E t \in ReaderThreads, node \in Nodes : BeginSearch(t, node)
  \/ \E t \in ReaderThreads : EnsureCheck(t)
  \/ \E t \in ReaderThreads : RegisterNodeOpSchema(t)
  \/ \E t \in ReaderThreads : MatchAndReturn(t)

SpecReaders == InitReaders /\ [][NextReaders]_vars

(***************************************************************************)
(* PartialGraphExecutionState                                              *)
(* (core/framework/partial_graph_execution_state.cc).                      *)
(***************************************************************************)
\* The session states a call may be given, and the execution plan of each
\* (SessionState::GetExecutionPlan): per logic stream the program counter of
\* each step, non-decreasing; the number of barriers.
SessionStates == {1, 2}
GetExecutionPlan(session_state) ==
  IF session_state = 1
    THEN [execution_plan |-> << <<0, 2, 5, 9>>, <<1, 3, 7>> >>,
          notification_owners |-> <<1>>,
          num_barriers |-> 1]
    ELSE [execution_plan |-> << <<0, 2, 2, 7>>, <<>>, <<7, 7, 8>> >>,
          notification_owners |-> <<1, 3>>,
          num_barriers |-> 2]

\* The program counters a caller sets as window start and end
WindowPoints == {0, 2, 7, 10}

\* program_counter_start_ / program_counter_end_ setters
SetProgramCounterStart(start) ==
  /\ instance = "alive"
  /\ program_counter_start_' = start
  /\ pret' = [call |-> "SetProgramCounter"]
  /\ UNCHANGED <<program_counter_end_, program_regions_, device_stream_collection_,
                 execution_context_, session_streams, instance, region_plan>>
  /\ UNCHANGED <<krm_vars, readers, mha_vars, cs_vars>>

SetProgramCounterEnd(end) ==
  /\ instance = "alive"
  /\ program_counter_end_' = end
  /\ pret' = [call |-> "SetProgramCounter"]
  /\ UNCHANGED <<program_counter_start_, program_regions_, device_stream_collection_,
                 execution_context_, session_streams, instance, region_plan>>
  /\ UNCHANGED <<krm_vars, readers, mha_vars, cs_vars>>

\* Faulty variant: the cache is never consulted.
FindRegion_Never(regions, start_pc, end_pc) == 0

\* Faulty variant: the end of the window is not compared.
FindRegion_StartOnly(regions, start_pc, end_pc) ==
  LET hits == {i \in 1 .. Len(regions) : regions[i].start_pc = start_pc}
  IN IF hits = {} THEN 0 ELSE CHOOSE i \in hits : \A j \in hits : i <= j

\* std::find_if over program_regions_ (lines 11-14): the index of the first
\* region with this start_pc and end_pc, 0 for end().
FindRegion(regions, start_pc, end_pc) ==
  LET hits == {i \in 1 .. Len(regions) :
                 regions[i].start_pc = start_pc /\ regions[i].end_pc = end_pc}
  IN IF hits = {} THEN 0 ELSE CHOOSE i \in hits : \A j \in hits : i <= j

\* Faulty variant: the scan also passes the steps whose pc equals the bound.
RECURSIVE ScanWhileLess_OrEqual(_, _, _)
ScanWhileLess_OrEqual(step_pc, cur, bound) ==
  IF cur < Len(step_pc) /\ step_pc[cur + 1] <= bound
    THEN ScanWhileLess_OrEqual(step_pc, cur + 1, bound)
    ELSE cur

\* while (cur < step_pc.size() && step_pc[cur] < bound) cur++   (lines 26-29
\* and 31-34); cur counts from 0.
RECURSIVE ScanWhileLess(_, _, _)
ScanWhileLess(step_pc, cur, bound) ==
  IF cur < Len(step_pc) /\ step_pc[cur + 1] < bound
    THEN ScanWhileLess(step_pc, cur + 1, bound)
    ELSE cur

\* Faulty variant: the second scan also takes the steps at end_pc.
StreamRange_EndInclusive(step_pc, start_pc, end_pc) ==
  LET start == ScanWhileLess(step_pc, 0, start_pc)
      cur == ScanWhileLess_OrEqual(step_pc, start, end_pc)
  IN [start |-> start, end |-> cur]

\* Faulty variant: the first scan also passes the steps at start_pc.
StreamRange_StartExclusive(step_pc, start_pc, end_pc) ==
  LET start == ScanWhileLess_OrEqual(step_pc, 0, start_pc)
      cur == ScanWhileLess(step_pc, start, end_pc)
  IN [start |-> start, end |-> cur]

\* Faulty variant: the second scan starts again at the first step.
StreamRange_Restart(step_pc, start_pc, end_pc) ==
  LET start == ScanWhileLess(step_pc, 0, start_pc)
      cur == ScanWhileLess(step_pc, 0, end_pc)
  IN [start |-> start, end |-> cur]

\* The body of the loop over the streams (lines 25-35): {start, cur}
StreamRange(step_pc, start_pc, end_pc) ==
  LET start == ScanWhileLess(step_pc, 0, start_pc)
      cur == ScanWhileLess(step_pc, start, end_pc)
  IN [start |-> start, end |-> cur]

\* Faulty variant: a stream with no step in the window gets no entry.
NewRegion_SkipEmpty(plan, start_pc, end_pc) ==
  LET NonEmpty(range) == range.start < range.end
  IN [start_pc |-> start_pc,
      end_pc |-> end_pc,
      stream_pc_range |->
        SelectSeq([s \in 1 .. Len(plan.execution_plan) |->
                     StreamRange(plan.execution_plan[s], start_pc, end_pc)],
                  NonEmpty)]

\* The new region (lines 18-36)
NewRegion(plan, start_pc, end_pc) ==
  [start_pc |-> start_pc,
   end_pc |-> end_pc,
   stream_pc_range |->
     [s \in 1 .. Len(plan.execution_plan) |->
        StreamRange(plan.execution_plan[s], start_pc, end_pc)]]

\* Faulty variant: a new region takes the place of the cached ones.
StoreRegion_Replace(regions, new_region) == <<new_region>>

\* program_regions_.push_back(std::move(new_region))   (line 37)
StoreRegion(regions, new_region) == Append(regions, new_region)

\* Faulty variant: a new region leaves out the steps below the end of the
\* windows already cached.
GetProgramRegionsResult_Dedup(regions, start_pc, end_pc, session_state) ==
  LET it == FindRegion(regions, start_pc, end_pc)
      ends == {regions[i].end_pc : i \in 1 .. Len(regions)} \cup {start_pc}
      from == CHOOSE pc \in ends : \A other \in ends : pc >= other
      fresh == NewRegion(GetExecutionPlan(session_state), from, end_pc)
      stored == StoreRegion(regions, [fresh EXCEPT !.start_pc = start_pc])
  IN IF it # 0
       THEN [regions |-> regions, index |-> it, plan_read |-> 0]
       ELSE [regions |-> stored, index |-> Len(stored), plan_read |-> session_state]

\* Faulty variant: a hit recomputes the region from the plan passed now.
GetProgramRegionsResult_Recompute(regions, start_pc, end_pc, session_state) ==
  LET it == FindRegion(regions, start_pc, end_pc)
      fresh == NewRegion(GetExecutionPlan(session_state), start_pc, end_pc)
      stored == StoreRegion(regions, fresh)
  IN IF it # 0
       THEN [regions |-> [regions EXCEPT ![it] = fresh], index |-> it, plan_read |-> 0]
       ELSE [regions |-> stored, index |-> Len(stored), plan_read |-> session_state]

\* GetProgramRegions (lines 9-39): the cache after the call, the index of the
\* region returned, and the session state whose plan was read (0: none).
GetProgramRegionsResult(regions, start_pc, end_pc, session_state) ==
  LET it == FindRegion(regions, start_pc, end_pc)
      stored == StoreRegion(regions,
                  NewRegion(GetExecutionPlan(session_state), start_pc, end_pc))
  IN IF it # 0
       THEN [regions |-> regions, index |-> it, plan_read |-> 0]
       ELSE [regions |-> stored, index |-> Len(stored), plan_read |-> session_state]

GetProgramRegions(session_state) ==
  LET r == GetProgramRegionsResult(program_regions_, program_counter_start_,
                                   program_counter_end_, session_state)
  IN /\ instance = "alive"
     /\ Len(r.regions) <= MaxRegions
     /\ program_regions_' = r.regions
     /\ region_plan' = IF r.plan_read = 0 THEN region_plan
                       ELSE Append(region_plan, r.plan_read)
     /\ pret' = [call |-> "GetProgramRegions", index |-> r.index,
                 region |-> r.regions[r.index], plan_read |-> r.plan_read,
                 session_state |-> session_state]
     /\ UNCHANGED <<program_counter_start_, program_counter_end_,
                    device_stream_collection_, execution_context_,
                    session_streams, instance>>
     /\ UNCHANGED <<krm_vars, readers, mha_vars, cs_vars>>

\* The region cache of one instance under window changes and lookups.
InitRegions ==
  /\ KRMConstructed
  /\ ReadersIdle
  /\ PGESConstructed
  /\ MHAConstructed
  /\ CSConstructed

NextRegions ==
  \/ \E start \in WindowPoints : SetProgramCounterStart(start)
  \/ \E end \in WindowPoints : SetProgramCounterEnd(end)
  \/ \E session_state \in SessionStates : GetProgramRegions(session_state)

SpecRegions == InitRegions /\ [][NextRegions]_vars

(***************************************************************************)
(* Device streams and execution context                                    *)
(***************************************************************************)
\* Faulty variant: the cached collection is not consulted.
DeviceStreamCollectionIsNull_Always(collection) == TRUE

\* if (device_stream_collection_ == nullptr)   (line 45)
DeviceStreamCollectionIsNull(collection) == collection = 0

\* Faulty variant: a failed acquisition discards the cached regions and the
\* cached execution context.
GetDeviceStreamCollection_Rollback(session_state, acquired) ==
  /\ instance = "alive"
  /\ IF DeviceStreamCollectionIsNull(device_stream_collection_)
       THEN /\ session_streams.acquired < MaxAcquire
            /\ session_streams' =
                 [session_streams EXCEPT !.acquired = @ + 1]
            /\ IF acquired
                 THEN /\ device_stream_collection_' = session_streams.acquired + 1
                      /\ pret' = [call |-> "GetDeviceStreamCollection", status |-> "OK",
                                  collection |-> session_streams.acquired + 1]
                      /\ UNCHANGED <<program_regions_, region_plan, execution_context_>>
                 ELSE /\ device_stream_collection_' = device_stream_collection_
                      /\ pret' = [call |-> "GetDeviceStreamCollection",
                                  status |-> "exception", collection |-> 0]
                      /\ program_regions_' = <<>>
                      /\ region_plan' = <<>>
                      /\ execution_context_' = NoContext
       ELSE /\ pret' = [call |-> "GetDeviceStreamCollection", status |-> "OK",
                        collection |-> device_stream_collection_]
            /\ UNCHANGED <<device_stream_collection_, session_streams,
                           program_regions_, region_plan, execution_context_>>
  /\ UNCHANGED <<program_counter_start_, program_counter_end_, instance>>
  /\ UNCHANGED <<krm_vars, readers, mha_vars, cs_vars>>

\* GetDeviceStreamCollection (lines 44-57).  acquired says whether
\* session_state.AcquireDeviceStreamCollection() returns a collection or
\* throws; the collection it returns is named by the number of the invocation.
GetDeviceStreamCollection(session_state, acquired) ==
  /\ instance = "alive"
  /\ IF DeviceStreamCollectionIsNull(device_stream_collection_)
       THEN /\ session_streams.acquired < MaxAcquire
            /\ session_streams' =
                 [session_streams EXCEPT !.acquired = @ + 1]
            /\ IF acquired
                 THEN /\ device_stream_collection_' = session_streams.acquired + 1
                      /\ pret' = [call |-> "GetDeviceStreamCollection", status |-> "OK",
                                  collection |-> session_streams.acquired + 1]
                 ELSE /\ device_stream_collection_' = device_stream_collection_
                      /\ pret' = [call |-> "GetDeviceStreamCollection",
                                  status |-> "exception", collection |-> 0]
       ELSE /\ pret' = [call |-> "GetDeviceStreamCollection", status |-> "OK",
                        collection |-> device_stream_collection_]
            /\ UNCHANGED <<device_stream_collection_, session_streams>>
  /\ UNCHANGED <<program_counter_start_, program_counter_end_, program_regions_,
                 execution_context_, instance, region_plan>>
  /\ UNCHANGED <<krm_vars, readers, mha_vars, cs_vars>>

\* Faulty variant: the collection goes back to the session's pool.
ReleaseDeviceStreams_Recycle(streams, collection) ==
  IF collection = 0 THEN streams
  ELSE [streams EXCEPT !.recycled = @ \cup {collection}]

\* What becomes of the collection when the unique_ptr member is destroyed:
\* the default deleter deletes it (the recycling deleter of lines 47-54 is
\* commented out).
ReleaseDeviceStreams(streams, collection) ==
  IF collection = 0 THEN streams
  ELSE [streams EXCEPT !.deleted = @ \cup {collection}]

\* ~PartialGraphExecutionState (lines 41-42)
Destructor ==
  /\ instance = "alive"
  /\ instance' = "destroyed"
  /\ session_streams' = ReleaseDeviceStreams(session_streams, device_stream_collection_)
  /\ pret' = [call |-> "~PartialGraphExecutionState"]
  /\ UNCHANGED <<program_counter_start_, program_counter_end_, program_regions_,
                 device_stream_collection_, execution_context_, region_plan>>
  /\ UNCHANGED <<krm_vars, readers, mha_vars, cs_vars>>

\* valid_streams (lines 67-72): the streams of the plan that have steps
ValidStreams(execution_plan) ==
  Cardinality({s \in 1 .. Len(execution_plan) : Len(execution_plan[s]) > 0})

\* The arguments of GetExecutionContext
Feeds == {"feeds1", "feeds2"}
Fetches == {"fetches1", "fetches2"}
Loggers == {"logger1", "logger2"}
DeviceStreamsArgs == 1 .. MaxAcquire

\* Faulty variant: the thread mode follows the number of streams.
NewExecutionContext_ByStreams(ctx, session_state, feeds, fetches, logger, device_streams) ==
  LET plan == GetExecutionPlan(session_state)
  IN [id |-> ctx.id + 1,
      session_state |-> session_state,
      valid_streams |-> ValidStreams(plan.execution_plan),
      notification_owners |-> plan.notification_owners,
      num_barriers |-> plan.num_barriers,
      feeds |-> feeds,
      fetches |-> fetches,
      logger |-> logger,
      device_streams |-> device_streams,
      single_thread |-> ValidStreams(plan.execution_plan) <= 1]

\* std::make_unique<ExecutionContext>(...) (lines 74-87); the last argument
\* is the literal true (single thread mode).
NewExecutionContext(ctx, session_state, feeds, fetches, logger, device_streams) ==
  LET plan == GetExecutionPlan(session_state)
  IN [id |-> ctx.id + 1,
      session_state |-> session_state,
      valid_streams |-> ValidStreams(plan.execution_plan),
      notification_owners |-> plan.notification_owners,
      num_barriers |-> plan.num_barriers,
      feeds |-> feeds,
      fetches |-> fetches,
      logger |-> logger,
      device_streams |-> device_streams,
      single_thread |-> TRUE]

\* Faulty variant: a resumption also rebinds the device streams.
UpdateExecutionContext_Rebind(ctx, session_state, feeds, fetches, logger, device_streams) ==
  [ctx EXCEPT !.feeds = feeds, !.fetches = fetches, !.logger = logger,
              !.device_streams = device_streams]

\* UpdateFeeds, UpdateFetches, SetLogger (lines 89-91)
UpdateExecutionContext(ctx, session_state, feeds, fetches, logger, device_streams) ==
  [ctx EXCEPT !.feeds = feeds, !.fetches = fetches, !.logger = logger]

\* GetExecutionContext (lines 59-95)
GetExecutionContext(feeds, fetches, logger, session_state, device_streams) ==
  /\ instance = "alive"
  /\ execution_context_' =
       IF execution_context_ = NoContext
         THEN NewExecutionContext(execution_context_, session_state, feeds,
                                  fetches, logger, device_streams)
         ELSE UpdateExecutionContext(execution_context_, session_state, feeds,
                                     fetches, logger, device_streams)
  /\ pret' = [call |-> "GetExecutionContext",
              context |-> execution_context_'.id,
              constructed |-> (execution_context_ = NoContext),
              feeds |-> feeds, fetches |-> fetches, logger |-> logger,
              device_streams |-> device_streams]
  /\ UNCHANGED <<program_counter_start_, program_counter_end_, program_regions_,
                 device_stream_collection_, session_streams, instance,
                 region_plan>>
  /\ UNCHANGED <<krm_vars, readers, mha_vars, cs_vars>>

\* One instance under stream acquisition, context resumption and destruction.
InitContext ==
  /\ KRMConstructed
  /\ ReadersIdle
  /\ PGESConstructed
  /\ MHAConstructed
  /\ CSConstructed

NextContext ==
  \/ \E session_state \in SessionStates, acquired \in BOOLEAN :
       GetDeviceStreamCollection(session_state, acquired)
  \/ \E feeds \in Feeds, fetches \in Fetches, logger \in Loggers,
        session_state \in SessionStates, device_streams \in DeviceStreamsArgs :
       GetExecutionContext(feeds, fetches, logger, session_state, device_streams)
  \/ Destructor

SpecContext == InitContext /\ [][NextContext]_vars

\* One instance whose stream acquisition can fail after regions and a context
\* were cached.
InitAcquire ==
  /\ KRMConstructed
  /\ ReadersIdle
  /\ PGESConstructed
  /\ MHAConstructed
  /\ CSConstructed

NextAcquire ==
  \/ \E end \in WindowPoints : SetProgramCounterEnd(end)
  \/ \E session_state \in SessionStates : GetProgramRegions(session_state)
  \/ \E session_state \in SessionStates, acquired \in BOOLEAN :
       GetDeviceStreamCollection(session_state, acquired)
  \/ \E feeds \in Feeds, session_state \in SessionStates :
       GetExecutionContext(feeds, "fetches1", "logger1", session_state, 1)

SpecAcquire == InitAcquire /\ [][NextAcquire]_vars

(***************************************************************************)
(* TFusedMultiHeadAttentionXMMAKernel: loading, isValid, run               *)
(* (fused_multihead_attention.h:34-153).                                   *)
(***************************************************************************)
\* The kernel meta table handed to the constructor (pMetaStart, nMetaCount).
\* Element i of the sequence is mKernelMeta[i - 1].
KernelMetaTable ==
  << [mS |-> 64, mD |-> 64, mSM |-> 86, mDataType |-> 3, mSharedMemBytes |-> 16384, mCubin |-> "cubin1"],
     [mS |-> 64, mD |-> 64, mSM |-> 80, mDataType |-> 3, mSharedMemBytes |-> 16384, mCubin |-> "cubin2"],
     [mS |-> 128, mD |-> 64, mSM |-> 80, mDataType |-> 3, mSharedMemBytes |-> 16384, mCubin |-> "cubin2"],
     [mS |-> 128, mD |-> 64, mSM |-> 80, mDataType |-> 3, mSharedMemBytes |-> 49152, mCubin |-> "cubin3"],
     [mS |-> 256, mD |-> 64, mSM |-> 86, mDataType |-> 3, mSharedMemBytes |-> 73728, mCubin |-> "cubin4"],
     [mS |-> 256, mD |-> 64, mSM |-> 86, mDataType |-> 3, mSharedMemBytes |-> 16384, mCubin |-> "cubin5"],
     [mS |-> 256, mD |-> 64, mSM |-> 80, mDataType |-> 3, mSharedMemBytes |-> 16384, mCubin |-> "cubin2"],
     [mS |-> 384, mD |-> 64, mSM |-> 87, mDataType |-> 3, mSharedMemBytes |-> 16384, mCubin |-> "cubin6"],
     [mS |-> 64, mD |-> 64, mSM |-> 86, mDataType |-> 6, mSharedMemBytes |-> 16384, mCubin |-> "cubin7"],
     [mS |-> 384, mD |-> 32, mSM |-> 75, mDataType |-> 3, mSharedMemBytes |-> 73728, mCubin |-> "cubin8"],
     [mS |-> 384, mD |-> 64, mSM |-> 80, mDataType |-> 3, mSharedMemBytes |-> 73728, mCubin |-> "cubin9"] >>

DataTypes == {DATA_TYPE_FP16, DATA_TYPE_INT8}
SmVersions == {kSM_75, kSM_80, kSM_86, kSM_87}
SequenceLengths == {64, 128, 256, 384, 512}
HeadSizes == {32, 64}

\* What the CUDA runtime and driver answer during one load: the opt-in
\* shared memory per block of the current device, whether the attribute
\* query succeeds, whether cuFuncSetAttribute succeeds.
Devices ==
  [smem : {65536, 101376}, query_ok : BOOLEAN, set_ok : BOOLEAN]

\* 64-bit unsigned arithmetic on four 16-bit words <<w3, w2, w1, w0>>.
\* (uint64_t)x of a 32-bit x: an unsigned or non-negative x is zero-extended,
\* a negative int32_t is sign-extended.
U64(x) ==
  <<IF x < 0 THEN 65535 ELSE 0, IF x < 0 THEN 65535 ELSE 0,
    (x \div 65536) % 65536, x % 65536>>

\* v << (16 * words) in 64 bits: the words shifted out at the top are lost.
ShiftLeft(v, words) ==
  [i \in 1 .. 4 |-> IF i + words <= 4 THEN v[i + words] ELSE 0]

\* a | b on the low `bits` bits of two words
RECURSIVE BitOr(_, _, _)
BitOr(a, b, bits) ==
  IF bits = 0 THEN 0
  ELSE IF a = 0 THEN b % (2 ^ bits)
  ELSE IF b = 0 THEN a % (2 ^ bits)
  ELSE (IF a % 2 = 1 \/ b % 2 = 1 THEN 1 ELSE 0)
       + 2 * BitOr(a \div 2, b \div 2, bits - 1)

\* a | b in 64 bits
Or64(a, b) == [i \in 1 .. 4 |-> BitOr(a[i], b[i], 16)]

\* The high and the low 32-bit word of a 64-bit value, as uint32_t.
HighWord(v) == v[1] * 65536 + v[2]
LowWord(v) == v[3] * 65536 + v[4]

\* hashID(s, d): (uint64_t)s << 32 | d with uint32_t s and d (lines 39-41).
hashID(s, d) == Or64(ShiftLeft(U64(s), 2), U64(d))

\* hashID(kernelMeta)   (lines 42-44)
hashIDOfMeta(kernelMeta) == hashID(kernelMeta.mS, kernelMeta.mD)

\* mFunctions.find(key) != mFunctions.end()
FindFunction(functions, key) == {f \in functions : f.key = key}

\* The shared-memory check of lines 58-70: the kernel is skipped
NotEnoughSharedMemory(kernelMeta, device) ==
  /\ kernelMeta.mSharedMemBytes >= DEFAULT_SMEM_SIZE
  /\ (~device.query_ok \/ device.smem < kernelMeta.mSharedMemBytes)

\* The attribute setting of lines 84-93 fails: the kernel is skipped
SetAttributeFails(kernelMeta, device) ==
  /\ kernelMeta.mSharedMemBytes >= DEFAULT_SMEM_SIZE
  /\ ~device.set_ok

\* Faulty variant: the sequence length is recorded before the attribute is set.
LoadKernel_ValidBeforeSkip(list, i, smVersion, device) ==
  LET kernelMeta == KernelMetaTable[i]
      kernelKey == hashIDOfMeta(kernelMeta)
  IN IF /\ kernelMeta.mSM = smVersion
        /\ kernelMeta.mDataType = list.mDataType
        /\ FindFunction(list.mFunctions, kernelKey) = {}
       THEN IF NotEnoughSharedMemory(kernelMeta, device) THEN list
            ELSE IF SetAttributeFails(kernelMeta, device)
              THEN [list EXCEPT !.mModules = @ \cup {kernelMeta.mCubin},
                                !.mValidSequences = @ \cup {kernelMeta.mS}]
            ELSE [list EXCEPT
                    !.mModules = @ \cup {kernelMeta.mCubin},
                    !.mFunctions = @ \cup {[key |-> kernelKey, mMetaInfoIndex |-> i - 1]},
                    !.mValidSequences = @ \cup {kernelMeta.mS}]
       ELSE list

\* One iteration of the loop of loadXMMAKernels(smVersion) (lines 52-102)
\* for mKernelMeta[i - 1].
LoadKernel(list, i, smVersion, device) ==
  LET kernelMeta == KernelMetaTable[i]
      kernelKey == hashIDOfMeta(kernelMeta)
  IN IF /\ kernelMeta.mSM = smVersion
        /\ kernelMeta.mDataType = list.mDataType
        /\ FindFunction(list.mFunctions, kernelKey) = {}
       THEN IF NotEnoughSharedMemory(kernelMeta, device) THEN list
            ELSE IF SetAttributeFails(kernelMeta, device)
              THEN [list EXCEPT !.mModules = @ \cup {kernelMeta.mCubin}]
            ELSE [list EXCEPT
                    !.mModules = @ \cup {kernelMeta.mCubin},
                    !.mFunctions = @ \cup {[key |-> kernelKey, mMetaInfoIndex |-> i - 1]},
                    !.mValidSequences = @ \cup {kernelMeta.mS}]
       ELSE list

\* loadXMMAKernels(smVersion) (lines 50-104): the loop from entry i on
RECURSIVE loadXMMAKernelsOfSm(_, _, _, _)
loadXMMAKernelsOfSm(list, i, smVersion, device) ==
  IF i > Len(KernelMetaTable) THEN list
  ELSE loadXMMAKernelsOfSm(LoadKernel(list, i, smVersion, device), i + 1,
                           smVersion, device)

\* Faulty variant: an sm_86 list loads the sm_80 kernels first.
loadXMMAKernels_Sm80First(list, device) ==
  IF list.mFunctions # {} THEN list
  ELSE IF list.mSM = kSM_86
    THEN loadXMMAKernelsOfSm(loadXMMAKernelsOfSm(list, 1, kSM_80, device), 1,
                             list.mSM, device)
  ELSE loadXMMAKernelsOfSm(list, 1, list.mSM, device)

\* loadXMMAKernels() (lines 106-118)
loadXMMAKernels(list, device) ==
  IF list.mFunctions # {} THEN list
  ELSE LET own == loadXMMAKernelsOfSm(list, 1, list.mSM, device)
       IN IF list.mSM = kSM_86
            THEN loadXMMAKernelsOfSm(own, 1, kSM_80, device)
            ELSE own

\* isValid(s) (lines 120-122)
isValid(list, s) == s \in list.mValidSequences

LoadXMMAKernels(device) ==
  /\ xmma_kernel' = loadXMMAKernels(xmma_kernel, device)
  /\ kret' = [call |-> "loadXMMAKernels", device |-> device,
              loaded |-> (xmma_kernel.mFunctions = {})]
  /\ UNCHANGED <<mKernels, kernel_lists, s_mutex, callers>>
  /\ UNCHANGED <<krm_vars, readers, pges_vars, cs_vars>>

\* A direct call of the public loadXMMAKernels(uint32_t smVersion) (lines
\* 50-104); before is mFunctions as the call found it.
LoadXMMAKernelsOfSm(smVersion, device) ==
  /\ xmma_kernel' = loadXMMAKernelsOfSm(xmma_kernel, 1, smVersion, device)
  /\ kret' = [call |-> "loadXMMAKernels(smVersion)", smVersion |-> smVersion,
              device |-> device, before |-> xmma_kernel.mFunctions]
  /\ UNCHANGED <<mKernels, kernel_lists, s_mutex, callers>>
  /\ UNCHANGED <<krm_vars, readers, pges_vars, cs_vars>>

IsValid(s) ==
  /\ kret' = [call |-> "isValid", s |-> s, result |-> isValid(xmma_kernel, s)]
  /\ UNCHANGED <<xmma_kernel, mKernels, kernel_lists, s_mutex, callers>>
  /\ UNCHANGED <<krm_vars, readers, pges_vars, cs_vars>>

\* run(params, stream) (lines 124-135): the function found for (params.s,
\* params.d) is launched; ORT_ENFORCE throws when there is none.
Run(s, d) ==
  LET findIter == FindFunction(xmma_kernel.mFunctions, hashID(s, d))
  IN /\ kret' = IF findIter = {}
                  THEN [call |-> "run", s |-> s, d |-> d, status |-> "exception",
                        launched |-> 0]
                  ELSE [call |-> "run", s |-> s, d |-> d, status |-> "OK",
                        launched |-> (CHOOSE f \in findIter : TRUE).mMetaInfoIndex + 1]
     /\ UNCHANGED <<xmma_kernel, mKernels, kernel_lists, s_mutex, callers>>
     /\ UNCHANGED <<krm_vars, readers, pges_vars, cs_vars>>

\* One kernel list of any data type and sm, constructed and then loaded and
\* queried.
InitKernelList ==
  /\ KRMConstructed
  /\ ReadersIdle
  /\ PGESConstructed
  /\ xmma_kernel \in {NewKernelList(type, sm) : type \in DataTypes, sm \in SmVersions}
  /\ kret = NoKRet
  /\ mKernels = {}
  /\ kernel_lists = <<>>
  /\ s_mutex = 0
  /\ callers = [t \in CallerThreads |-> IdleCaller]
  /\ CSConstructed

NextKernelList ==
  \/ \E device \in Devices : LoadXMMAKernels(device)
  \/ \E smVersion \in SmVersions, device \in Devices :
        LoadXMMAKernelsOfSm(smVersion, device)
  \/ \E s \in SequenceLengths : IsValid(s)
  \/ \E s \in SequenceLengths, d \in HeadSizes : Run(s, d)

SpecKernelList == InitKernelList /\ [][NextKernelList]_vars

(***************************************************************************)
(* TFusedMHAKernelFactory (lines 155-194).  mKernels is the set of the     *)
(* map's entries [id, ptr]; kernel_lists is the heap of kernel lists built *)
(* by the factory, a pointer being an index into it, each with the id it   *)
(* was built for and whether it is still alive.  s_mutex is 0 when free    *)
(* and otherwise the thread that holds it.                                 *)
(***************************************************************************)
MaxLists == 2

\* What cudaGetDevice (line 185) can answer for the calling thread: two
\* devices, and an ordinal that does not fit 16 bits; and what each device
\* answers while a kernel list is loaded on it.
DeviceIDs == {0, 1, 65536}
FactorySmVersions == {kSM_80, kSM_86}
DeviceProperties(deviceID) ==
  IF deviceID = 0
    THEN [smem |-> 101376, query_ok |-> TRUE, set_ok |-> TRUE]
    ELSE [smem |-> 65536, query_ok |-> TRUE, set_ok |-> TRUE]

\* hashID(type, sm) (lines 182-191) on the device the calling thread is on:
\* the three ORT_ENFORCE checks, then (uint64_t)type << 48 |
\* (uint64_t)deviceID << 32 | sm.  deviceID is an int32_t, so x & 0xFFFF == x
\* holds exactly for 0 <= x < 2^16; sm is a uint32_t, for which
\* (sm & 0xFFFFFFFF) == sm always holds.
KeyOf(type, deviceID, sm) ==
  Or64(Or64(ShiftLeft(U64(type), 3), ShiftLeft(U64(deviceID), 2)), U64(sm))

FactoryHashID_Unchecked(type, deviceID, sm) ==
  [ok |-> TRUE, id |-> KeyOf(type, deviceID, sm)]
FactoryHashID(type, deviceID, sm) ==
  IF /\ deviceID % 65536 = deviceID
     /\ type % 65536 = type
     /\ sm = sm
    THEN [ok |-> TRUE, id |-> KeyOf(type, deviceID, sm)]
    ELSE [ok |-> FALSE, id |-> NoID]

\* mKernels.find(id) (line 164): the pointer stored under id, 0 for end().
FindKernels(kernels, id) ==
  IF \E e \in kernels : e.id = id
    THEN (CHOOSE e \in kernels : e.id = id).ptr
    ELSE 0

\* std::lock_guard<std::mutex> lg(s_mutex) (lines 160-161) returns once the
\* mutex is free.
MutexFree_Ignored(t) == TRUE
MutexFree(t) == s_mutex = 0

\* A thread on device deviceID calls getXMMAKernels(.., type, sm).
CallGetXMMAKernels(t, type, sm, deviceID) ==
  /\ callers[t].pc = "idle"
  /\ \/ Len(kernel_lists) < MaxLists
     \/ \E i \in DOMAIN kernel_lists :
           kernel_lists[i].id = FactoryHashID(type, deviceID, sm).id
  /\ callers' = [callers EXCEPT ![t] =
       [IdleCaller EXCEPT !.pc = "lock", !.type = type, !.sm = sm,
                          !.device = deviceID]]
  /\ UNCHANGED <<xmma_kernel, kret, mKernels, kernel_lists, s_mutex>>
  /\ UNCHANGED <<krm_vars, readers, pges_vars, cs_vars>>

\* line 161
LockMutex(t) ==
  /\ callers[t].pc = "lock"
  /\ MutexFree(t)
  /\ s_mutex' = t
  /\ callers' = [callers EXCEPT ![t].pc = "find"]
  /\ UNCHANGED <<xmma_kernel, kret, mKernels, kernel_lists>>
  /\ UNCHANGED <<krm_vars, readers, pges_vars, cs_vars>>

\* lines 163-165: a failed ORT_ENFORCE throws, and the unwinding releases the
\* lock_guard.
HashAndFind(t) ==
  LET c == callers[t]
      h == FactoryHashID(c.type, c.device, c.sm)
      findIter == FindKernels(mKernels, h.id)
  IN /\ c.pc = "find"
     /\ IF ~h.ok
          THEN /\ callers' = [callers EXCEPT ![t].pc = "idle",
                                             ![t].status = "exception"]
               /\ s_mutex' = IF s_mutex = t THEN 0 ELSE s_mutex
          ELSE /\ callers' = [callers EXCEPT
                    ![t].pc = IF findIter = 0 THEN "create" ELSE "return",
                    ![t].id = h.id, ![t].findIter = findIter,
                    ![t].result = findIter]
               /\ s_mutex' = s_mutex
     /\ UNCHANGED <<xmma_kernel, kret, mKernels, kernel_lists>>
     /\ UNCHANGED <<krm_vars, readers, pges_vars, cs_vars>>

\* lines 166-169: the new list is built and loaded on the caller's device;
\* unordered_map::insert adds the entry unless the key is present, in which
\* case the temporary unique_ptr deletes the new list.
CreateKernels(t) ==
  LET c == callers[t]
      newKernel == Len(kernel_lists) + 1
      loaded == loadXMMAKernels(NewKernelList(c.type, c.sm),
                                DeviceProperties(c.device))
      inserted == FindKernels(mKernels, c.id) = 0
  IN /\ c.pc = "create"
     /\ kernel_lists' = Append(kernel_lists,
          [list |-> loaded, id |-> c.id, device |-> c.device,
           live |-> inserted])
     /\ mKernels' = IF inserted
                      THEN mKernels \cup {[id |-> c.id, ptr |-> newKernel]}
                      ELSE mKernels
     /\ callers' = [callers EXCEPT ![t].pc = "return", ![t].result = newKernel]
     /\ UNCHANGED <<xmma_kernel, kret, s_mutex>>
     /\ UNCHANGED <<krm_vars, readers, pges_vars, cs_vars>>

\* lines 169 and 171: the return releases the lock_guard.
ReturnKernels(t) ==
  /\ callers[t].pc = "return"
  /\ callers' = [callers EXCEPT ![t].pc = "idle", ![t].status = "returned",
                                ![t].id = NoID, ![t].findIter = 0]
  /\ s_mutex' = IF s_mutex = t THEN 0 ELSE s_mutex
  /\ UNCHANGED <<xmma_kernel, kret, mKernels, kernel_lists>>
  /\ UNCHANGED <<krm_vars, readers, pges_vars, cs_vars>>

\* The factory singleton as constructed, used by two threads.
InitFactory ==
  /\ KRMConstructed
  /\ ReadersIdle
  /\ PGESConstructed
  /\ MHAConstructed
  /\ CSConstructed

NextFactory ==
  \/ \E t \in CallerThreads, type \in DataTypes, sm \in FactorySmVersions,
        deviceID \in DeviceIDs : CallGetXMMAKernels(t, type, sm, deviceID)
  \/ \E t \in CallerThreads : LockMutex(t)
  \/ \E t \in CallerThreads : HashAndFind(t)
  \/ \E t \in CallerThreads : CreateKernels(t)
  \/ \E t \in CallerThreads : ReturnKernels(t)

SpecFactory == InitFactory /\ [][NextFactory]_vars

(***************************************************************************)
(* The two hashID functions called on their own: kret holds the results of *)
(* the last two calls of the same function, latest first.                  *)
(***************************************************************************)
\* Data types, device ordinals and sm versions inside and outside the ranges
\* the ORT_ENFORCE checks accept; 32-bit values for s and d that use the low
\* half-word, the high half-word or both.
HashTypes == {2, DATA_TYPE_FP16, DATA_TYPE_INT8, 65539}
HashDeviceIDs == {-1, 0, 1, 65536}
HashSms == {kSM_75, kSM_80, 65616}
HashWords == {0, 1, 64, 65536, 65600, 2147483647}

PreviousResults(call) ==
  IF kret.call = call THEN <<kret.results[1]>> ELSE <<>>

\* TFusedMHAKernelFactory::hashID(type, sm) on a thread whose current device
\* is deviceID (lines 182-191)
FactoryHashIDCall(type, deviceID, sm) ==
  LET h == FactoryHashID(type, deviceID, sm)
  IN /\ kret' = [call |-> "factory hashID",
                 results |-> <<[type |-> type, deviceID |-> deviceID,
                                sm |-> sm, ok |-> h.ok, id |-> h.id]>>
                             \o PreviousResults("factory hashID")]
     /\ UNCHANGED <<xmma_kernel, mKernels, kernel_lists, s_mutex, callers>>
     /\ UNCHANGED <<krm_vars, readers, pges_vars, cs_vars>>

\* TFusedMultiHeadAttentionXMMAKernel::hashID(s, d) (lines 39-41)
KernelHashIDCall(s, d) ==
  /\ kret' = [call |-> "kernel hashID",
              results |-> <<[s |-> s, d |-> d, id |-> hashID(s, d)]>>
                          \o PreviousResults("kernel hashID")]
  /\ UNCHANGED <<xmma_kernel, mKernels, kernel_lists, s_mutex, callers>>
  /\ UNCHANGED <<krm_vars, readers, pges_vars, cs_vars>>

InitHashID ==
  /\ KRMConstructed
  /\ ReadersIdle
  /\ PGESConstructed
  /\ MHAConstructed
  /\ CSConstructed

NextHashID ==
  \/ \E type \in HashTypes, deviceID \in HashDeviceIDs, sm \in HashSms :
        FactoryHashIDCall(type, deviceID, sm)
  \/ \E s \in HashWords, d \in HashWords : KernelHashIDCall(s, d)

SpecHashID == InitHashID /\ [][NextHashID]_vars

(***************************************************************************)
(* ConstantSharing (constant_sharing.cc).  The graph is kept as            *)
(*   initialized_tensors : name -> [data_type, raw, shape, constant], raw  *)
(*       being the stored datum (for FLOAT16 the 16 bits of the half) and  *)
(*       shape the NodeArg's shape [has_shape, dims], a dim without value  *)
(*       being -1;                                                         *)
(*   input_defs, implicit_input_defs : node index -> sequence of names;    *)
(*   consumer_nodes : name -> set of node indexes, what GetConsumerNodes,  *)
(*       AddConsumerNode and RemoveConsumerNode work on;                   *)
(*   node_args_ : the names the graph holds a NodeArg for;                 *)
(*   generated_node_arg_names_, name_generator_ : the names handed out by  *)
(*       GenerateNodeArgName and its counter.                              *)
(* Input ports are counted from 1.                                         *)
(***************************************************************************)
\* lines 15-21
supported_data_types == {"FLOAT", "FLOAT16", "DOUBLE", "INT32", "INT64"}

\* lines 23-26
IsSupportedDataType_Any(data_type) == TRUE
IsSupportedDataType(data_type) == data_type \in supported_data_types

\* lines 28-34
IsValidSingleValueShape(input_shape) ==
  IF ~input_shape.has_shape THEN FALSE
  ELSE LET dim_size == Len(input_shape.dims)
       IN \/ dim_size = 0
          \/ /\ dim_size = 1
             /\ input_shape.dims[1] >= 0
             /\ input_shape.dims[1] = 1

\* lines 36-39
SHARED_INITIALIZER_PREFIX == "ortshared_"
IsSharedInitializer(initializer_name) ==
  /\ Len(initializer_name) >= Len(SHARED_INITIALIZER_PREFIX)
  /\ SubSeq(initializer_name, 1, Len(SHARED_INITIALIZER_PREFIX))
       = SHARED_INITIALIZER_PREFIX

\* graph.GetConsumerNodes(name): the nodes recorded for the name in
\* node_arg_to_consumer_nodes_, a set of node indexes per name.
GetConsumerNodes(g, name) ==
  IF name \in DOMAIN g.consumer_nodes THEN g.consumer_nodes[name] ELSE {}

\* The vector graph.GetConsumerNodes(name) hands out (line 43): the consumers
\* in the order in which node_order, a sequence of all nodes, has them.
RECURSIVE ConsumersInOrder(_, _, _, _)
ConsumersInOrder(g, name, node_order, i) ==
  IF i > Len(node_order) THEN <<>>
  ELSE (IF node_order[i] \in GetConsumerNodes(g, name)
          THEN <<node_order[i]>> ELSE <<>>)
       \o ConsumersInOrder(g, name, node_order, i + 1)

\* graph.GetNodeArg(name) != nullptr (line 167): the graph holds a NodeArg
\* for every initializer and every node input it was built with and for
\* every initializer added since; removing an initializer leaves its NodeArg.
HasNodeArg(g, name) == name \in g.node_args_

\* The defs of one node that are the given NodeArg, in port order (the
\* loops of lines 48-53 and 61-65).
RECURSIVE MatchingPorts(_, _, _)
MatchingPorts(defs, name, i) ==
  IF i > Len(defs) THEN <<>>
  ELSE (IF defs[i] = name THEN <<i>> ELSE <<>>)
       \o MatchingPorts(defs, name, i + 1)

\* The loop of lines 47-66 from the i-th consumer on: it stops at the first
\* consumer that has the initializer among its implicit inputs, and the
\* ports of the consumers visited before stay in the map.
RECURSIVE ScanConsumers(_, _, _, _, _)
ScanConsumers(g, name, consumers, i, map) ==
  IF i > Len(consumers)
    THEN [found_subgraph_usage |-> FALSE,
          consumer_node_to_input_ports_map |-> map]
  ELSE IF MatchingPorts(g.implicit_input_defs[consumers[i]], name, 1) # <<>>
    THEN [found_subgraph_usage |-> TRUE,
          consumer_node_to_input_ports_map |-> map]
  ELSE LET ports == MatchingPorts(g.input_defs[consumers[i]], name, 1)
       IN ScanConsumers(g, name, consumers, i + 1,
            IF ports = <<>> THEN map
            ELSE [n \in DOMAIN map \cup {consumers[i]} |->
                    IF n = consumers[i] THEN ports ELSE map[n]])

\* PrepareInputPortsToReplace (lines 41-69): whether a consumer uses the
\* initializer as an implicit input, and the consumer -> input ports map.
PrepareInputPortsToReplace_IgnoreSubgraph(g, name, node_order) ==
  LET consumers == GetConsumerNodes(g, name)
  IN [found_subgraph_usage |-> FALSE,
      consumer_node_to_input_ports_map |->
        [n \in {c \in consumers :
                  MatchingPorts(g.input_defs[c], name, 1) # <<>>} |->
           MatchingPorts(g.input_defs[n], name, 1)]]
PrepareInputPortsToReplace(g, name, node_order) ==
  ScanConsumers(g, name, ConsumersInOrder(g, name, node_order, 1), 1, <<>>)

\* Faulty variant: only the first of the ports is redirected.
ReplaceNodeInputs_FirstPortOnly(g, node, ports, shared) ==
  [g EXCEPT !.input_defs[node] = [@ EXCEPT ![ports[1]] = shared]]

\* graph_utils::ReplaceNodeInput for every port of one consumer (lines 82-84)
ReplaceNodeInputs(g, node, ports, shared) ==
  [g EXCEPT !.input_defs[node] =
     [i \in DOMAIN @ |->
        IF \E k \in DOMAIN ports : ports[k] = i THEN shared ELSE @[i]]]

\* graph.RemoveConsumerNode(name, node) (line 85): the node leaves the set
\* recorded for the name.
RemoveConsumerNode(g, name, node) ==
  [g EXCEPT !.consumer_nodes =
     [k \in DOMAIN @ \cup {name} |->
        IF k = name THEN GetConsumerNodes(g, name) \ {node} ELSE @[k]]]

\* graph.AddConsumerNode(name, node) (line 90): the node joins the set
\* recorded for the name; a node that is in the set already stays once.
AddConsumerNode(g, name, node) ==
  [g EXCEPT !.consumer_nodes =
     [k \in DOMAIN @ \cup {name} |->
        IF k = name THEN GetConsumerNodes(g, name) \cup {node} ELSE @[k]]]

\* lines 87-91: the consumer is added unless it is already recorded
AddConsumerRef(g, name, node) ==
  IF node \notin GetConsumerNodes(g, name)
    THEN AddConsumerNode(g, name, node)
    ELSE g

\* graph.RemoveInitializedTensor(name) (line 96)
RemoveInitializedTensor(g, name) ==
  [g EXCEPT !.initialized_tensors = [k \in DOMAIN @ \ {name} |-> @[k]]]

\* lines 94-97
RemoveIfUnused(g, origin) ==
  IF Cardinality(GetConsumerNodes(g, origin)) = 0
    THEN RemoveInitializedTensor(g, origin)
    ELSE g

\* The loop of lines 77-92 over the consumers not yet handled.
RECURSIVE ReplaceConsumers(_, _, _, _, _)
ReplaceConsumers(g, map, todo, origin, shared) ==
  IF todo = {} THEN g
  ELSE LET node == CHOOSE n \in todo : \A k \in todo : n <= k
           replaced == ReplaceNodeInputs(g, node, map[node], shared)
           removed == RemoveConsumerNode(replaced, origin, node)
       IN ReplaceConsumers(AddConsumerRef(removed, shared, node), map,
                           todo \ {node}, origin, shared)

\* ReplaceInputsToUseSharedInitializer (lines 72-98)
ReplaceInputsToUseSharedInitializer(g, map, origin, shared) ==
  RemoveIfUnused(ReplaceConsumers(g, map, DOMAIN map, origin, shared), origin)

\* A value of a binary floating-point type, kept exactly:
\*   class "finite": plus or minus significand * 2^exponent, the significand
\*       odd, or zero with significand 0 and exponent 0;
\*   class "inf": plus or minus infinity;  class "nan": not a number.
RECURSIVE Normalized(_, _, _)
Normalized(negative, significand, exponent) ==
  IF significand = 0
    THEN [class |-> "finite", negative |-> negative, significand |-> 0,
          exponent |-> 0]
  ELSE IF significand % 2 = 0
    THEN Normalized(negative, significand \div 2, exponent + 1)
  ELSE [class |-> "finite", negative |-> negative,
        significand |-> significand, exponent |-> exponent]

\* The float or double that holds a whole number.
FloatOfInteger(n) == Normalized(n < 0, IF n < 0 THEN 0 - n ELSE n, 0)

\* operator== of float and double: a NaN equals nothing, the two zeros are
\* equal.
FloatEquals(a, b) ==
  /\ a.class # "nan"
  /\ b.class # "nan"
  /\ \/ a = b
     \/ /\ a.class = "finite" /\ b.class = "finite"
        /\ a.significand = 0 /\ b.significand = 0

\* math::halfToFloat (line 127) on the 16 bits of a half: sign bit, 5
\* exponent bits, 10 mantissa bits.  Exponent 31 is infinity (mantissa 0) or
\* a NaN, exponent 0 is zero or a subnormal, mantissa * 2^-24, and every
\* other half is (1024 + mantissa) * 2^(exponent - 25); float holds each of
\* them exactly.
halfToFloat(bits) ==
  LET negative == (bits \div 32768) % 2 = 1
      exponent == (bits \div 1024) % 32
      mantissa == bits % 1024
  IN IF exponent = 31
       THEN [class |-> IF mantissa = 0 THEN "inf" ELSE "nan",
             negative |-> negative, significand |-> 0, exponent |-> 0]
     ELSE IF exponent = 0 THEN Normalized(negative, mantissa, -24)
     ELSE Normalized(negative, 1024 + mantissa, exponent - 25)

\* GetOrAddValueIntoConstantStore<T> (lines 121-138).  A std::variant value
\* is its alternative and the value held: a floating-point value for float
\* and double, the integer for int32_t and int64_t.  std::find compares
\* with the variant's operator==: same alternative and equal values.  The
\* value id is the position in the store, counted from 0.
VariantOf(T, tensor) ==
  CASE T = "MLFloat16" -> [alt |-> "float", v |-> halfToFloat(tensor.raw)]
    [] T \in {"float", "double"} -> [alt |-> T, v |-> FloatOfInteger(tensor.raw)]
    [] OTHER -> [alt |-> T, v |-> tensor.raw]

VariantEquals(a, b) ==
  /\ a.alt = b.alt
  /\ IF a.alt \in {"float", "double"} THEN FloatEquals(a.v, b.v)
     ELSE a.v = b.v

GetOrAddValueIntoConstantStore(T, tensor, const_value_store) ==
  LET value == VariantOf(T, tensor)
      hits == {i \in DOMAIN const_value_store :
                 VariantEquals(const_value_store[i], value)}
  IN IF hits = {}
       THEN [status |-> "OK",
             const_value_store |-> Append(const_value_store, value),
             value_id |-> Len(const_value_store)]
       ELSE [status |-> "OK", const_value_store |-> const_value_store,
             value_id |-> (CHOOSE i \in hits : \A k \in hits : i <= k) - 1]

\* DispatchOnONNXTensorProtoDataTypeWithReturn (lines 100-119)
DispatchOnONNXTensorProtoDataTypeWithReturn(data_type, tensor, const_value_store) ==
  CASE data_type = "FLOAT" ->
         GetOrAddValueIntoConstantStore("float", tensor, const_value_store)
    [] data_type = "DOUBLE" ->
         GetOrAddValueIntoConstantStore("double", tensor, const_value_store)
    [] data_type = "INT32" ->
         GetOrAddValueIntoConstantStore("int32_t", tensor, const_value_store)
    [] data_type = "INT64" ->
         GetOrAddValueIntoConstantStore("int64_t", tensor, const_value_store)
    [] data_type = "FLOAT16" ->
         GetOrAddValueIntoConstantStore("MLFloat16", tensor, const_value_store)
    [] OTHER ->
         [status |-> "Unknown tensor type",
          const_value_store |-> const_value_store, value_id |-> 0]

\* The local data_type of ApplyImpl: set at line 173 and not assigned again.
LocalDataType(tensor) == -1

\* line 198: MakeString(SHARED_INITIALIZER_PREFIX, value_id, "_", data_type,
\* "_", dim_size)
PatternKey(value_id, data_type, dim_size) ==
  SHARED_INITIALIZER_PREFIX \o ToString(value_id) \o "_" \o ToString(data_type)
    \o "_" \o ToString(dim_size)

\* graph.GenerateNodeArgName(base) (line 205): base when the graph has no
\* NodeArg of that name and has not handed the name out before; otherwise
\* base, "_token_" and the graph's name counter, which is advanced until
\* the name is free.  The name is remembered as handed out.  Gives the name
\* and the graph with its counter and its names handed out.
GenerateNodeArgName(g, base) ==
  LET Used(gr, name) ==
        name \in gr.node_args_ \/ name \in gr.generated_node_arg_names_
      HandOut(gr, name) ==
        [name |-> name,
         graph |-> [gr EXCEPT !.generated_node_arg_names_ = @ \cup {name}]]
      RECURSIVE NextFreeToken(_)
      NextFreeToken(gr) ==
        LET new_name == base \o "_token_" \o ToString(gr.name_generator_)
            advanced == [gr EXCEPT !.name_generator_ = @ + 1]
        IN IF Used(gr, new_name)
             THEN NextFreeToken(advanced)
             ELSE HandOut(advanced, new_name)
  IN IF Used(g, base) THEN NextFreeToken(g) ELSE HandOut(g, base)

\* graph_utils::AddInitializer (lines 204-207): the copy of the tensor under
\* its new name, and the NodeArg of that name.
AddInitializer(g, name, tensor) ==
  [g EXCEPT !.initialized_tensors =
              [k \in DOMAIN @ \cup {name} |-> IF k = name THEN tensor ELSE @[k]],
            !.node_args_ = @ \cup {name}]

\* lines 151-160: the initializers ApplyImpl looks at
OriginalInitializerNames(g, excluded) ==
  {name \in DOMAIN g.initialized_tensors :
     ~(\/ IsSharedInitializer(name)
       \/ ~g.initialized_tensors[name].constant
       \/ name \in excluded)}

\* What ApplyImpl has in hand between two iterations of the loop of lines
\* 166-215; replaced logs, per initializer replaced, the shared name.
\* modified is the caller's bool, which ApplyImpl receives by reference.
PassStart(g, modified) ==
  [graph |-> g, const_value_store |-> <<>>,
   pattern_key_to_shared_arg_map |-> <<>>, modified |-> modified,
   status |-> "OK", replaced |-> <<>>]

\* One iteration of the loop (lines 167-214)
ShareInitializer(st, initializer_name, node_order) ==
  LET g == st.graph
      tensor == g.initialized_tensors[initializer_name]
      prepared == PrepareInputPortsToReplace(g, initializer_name, node_order)
      map == prepared.consumer_node_to_input_ports_map
      stored == DispatchOnONNXTensorProtoDataTypeWithReturn(
                  tensor.data_type, tensor, st.const_value_store)
      pattern_key == PatternKey(stored.value_id, LocalDataType(tensor),
                                Len(tensor.shape.dims))
      known == pattern_key \in DOMAIN st.pattern_key_to_shared_arg_map
      generated == GenerateNodeArgName(g, pattern_key)
      shared == IF known THEN st.pattern_key_to_shared_arg_map[pattern_key]
                ELSE generated.name
      added == IF known THEN g
               ELSE AddInitializer(generated.graph, shared, tensor)
  IN IF \/ ~HasNodeArg(g, initializer_name)
        \/ ~IsValidSingleValueShape(tensor.shape)
       THEN st
     ELSE IF ~tensor.constant \/ ~IsSupportedDataType(tensor.data_type)
       THEN st
     ELSE IF prepared.found_subgraph_usage \/ DOMAIN map = {}
       THEN st
     ELSE IF stored.status # "OK"
       THEN [st EXCEPT !.status = stored.status]
     ELSE [graph |-> ReplaceInputsToUseSharedInitializer(
                       added, map, initializer_name, shared),
           const_value_store |-> stored.const_value_store,
           pattern_key_to_shared_arg_map |->
             [k \in DOMAIN st.pattern_key_to_shared_arg_map \cup {pattern_key}
                |-> IF k = pattern_key THEN shared
                    ELSE st.pattern_key_to_shared_arg_map[k]],
           modified |-> TRUE,
           status |-> "OK",
           replaced |-> Append(st.replaced, [origin |-> initializer_name,
                                             shared |-> shared])]

\* The loop of lines 166-215 from the i-th name on; a failed ORT_ENFORCE
\* leaves the function.
RECURSIVE ShareInitializers(_, _, _, _)
ShareInitializers(st, names, i, node_order) ==
  IF i > Len(names) \/ st.status # "OK" THEN st
  ELSE ShareInitializers(ShareInitializer(st, names[i], node_order), names,
                         i + 1, node_order)

\* The orders in which initialized_tensor_set, an unordered map, can hand
\* out the names (line 151).
Orders(names) ==
  {order \in [1 .. Cardinality(names) -> names] :
     \A i, j \in 1 .. Cardinality(names) : order[i] = order[j] => i = j}

\* ConstantSharing::ApplyImpl (lines 142-218), called with the caller's
\* modified flag; order is the order in which the initializers are visited
\* and node_order the one in which consumers are handed out.
ApplyImpl(order, node_order, modified) ==
  LET st == ShareInitializers(PassStart(graph, modified), order, 1, node_order)
  IN /\ order \in Orders(OriginalInitializerNames(graph, excluded_initializers_))
     /\ node_order \in Orders(DOMAIN graph.input_defs)
     /\ graph' = st.graph
     /\ applied' = [call |-> "ApplyImpl", before |-> graph, order |-> order,
                    modified_before |-> modified,
                    modified |-> st.modified, status |-> st.status,
                    replaced |-> st.replaced]
     /\ UNCHANGED excluded_initializers_
     /\ UNCHANGED <<krm_vars, readers, pges_vars, mha_vars>>

\* Initializers: single values of every supported type and of an unsupported
\* one, the half and the float that hold 1.0, the halves 0.5 (bits 14336),
\* -1.0 (48128) and NaN (32256), shapes of rank 0, [1], [2], [symbolic] and
\* no shape, and an initializer that a graph input overrides.
TensorOf(data_type, raw, dims) ==
  [data_type |-> data_type, raw |-> raw,
   shape |-> [has_shape |-> TRUE, dims |-> dims], constant |-> TRUE]

TensorsOfB ==
  {TensorOf("FLOAT", 1, <<>>), TensorOf("FLOAT16", 15360, <<>>),
   TensorOf("FLOAT", 1, <<1>>), TensorOf("INT32", 1, <<>>),
   TensorOf("BOOL", 1, <<>>)}

TensorsOfA ==
  TensorsOfB \cup
  {TensorOf("INT64", 1, <<>>),
   TensorOf("FLOAT16", 14336, <<>>), TensorOf("FLOAT16", 32256, <<>>),
   TensorOf("FLOAT", 2, <<>>), TensorOf("DOUBLE", 1, <<>>),
   TensorOf("FLOAT", 1, <<2>>), TensorOf("FLOAT", 1, <<-1>>),
   [TensorOf("FLOAT", 1, <<>>) EXCEPT !.shape.has_shape = FALSE],
   [TensorOf("FLOAT", 1, <<>>) EXCEPT !.constant = FALSE]}

TensorsOfC ==
  {TensorOf("FLOAT", 1, <<>>), TensorOf("FLOAT16", 48128, <<1>>),
   TensorOf("FLOAT16", 32256, <<>>)}

\* node_arg_to_consumer_nodes_ of a graph whose nodes have these inputs:
\* every node recorded for each name among its explicit and implicit
\* inputs.
ConsumersOf(input_defs, implicit_input_defs) ==
  LET Uses(n, name) ==
        \/ \E i \in DOMAIN input_defs[n] : input_defs[n][i] = name
        \/ \E i \in DOMAIN implicit_input_defs[n] :
              implicit_input_defs[n][i] = name
      names == UNION {{input_defs[n][i] : i \in DOMAIN input_defs[n]}
                        \cup {implicit_input_defs[n][i] :
                                i \in DOMAIN implicit_input_defs[n]} :
                      n \in DOMAIN input_defs}
  IN [name \in names |-> {n \in DOMAIN input_defs : Uses(n, name)}]

\* Two nodes with two inputs each, drawn from the initializers a, b, a
\* third one and a graph input x; the third initializer is c, or the shared
\* initializer that an earlier pass left in the graph; the second node may
\* hold a subgraph that reads a.  No name has been generated yet.
Graphs ==
  LET ThirdInitializers ==
        {[name |-> "c", tensor |-> tc] : tc \in TensorsOfC}
        \cup {[name |-> "ortshared_0_-1_0",
               tensor |-> TensorOf("FLOAT", 1, <<>>)]}
      GraphsWith(third) ==
        {[initialized_tensors |-> [name \in {"a", "b", third.name} |->
                                     CASE name = "a" -> ta
                                       [] name = "b" -> tb
                                       [] OTHER -> third.tensor],
          input_defs |-> <<in1, in2>>,
          implicit_input_defs |-> <<<<>>, implicit2>>,
          consumer_nodes |-> ConsumersOf(<<in1, in2>>, <<<<>>, implicit2>>),
          node_args_ |-> {"a", "b", "x", third.name},
          generated_node_arg_names_ |-> {},
          name_generator_ |-> 0] :
           ta \in TensorsOfA, tb \in TensorsOfB,
           in1 \in {<<"a", "b">>, <<"a", "a">>, <<"b", "x">>, <<"x", "a">>,
                    <<"x", "x">>},
           in2 \in [1 .. 2 -> {"b", third.name}],
           implicit2 \in {<<>>, <<"a">>}}
  IN UNION {GraphsWith(third) : third \in ThirdInitializers}

InitConstantSharing ==
  /\ KRMConstructed
  /\ ReadersIdle
  /\ PGESConstructed
  /\ MHAConstructed
  /\ graph \in Graphs
  /\ excluded_initializers_ \in {{}, {"b"}}
  /\ applied = NotApplied

NextConstantSharing ==
  \E order \in Orders(OriginalInitializerNames(graph, excluded_initializers_)),
     node_order \in Orders(DOMAIN graph.input_defs), modified \in BOOLEAN :
     ApplyImpl(order, node_order, modified)

SpecConstantSharing == InitConstantSharing /\ [][NextConstantSharing]_vars

(***************************************************************************)
(* Claims about the region cache                                           *)
(***************************************************************************)
\* The step list the cached region i was computed from
CachedStepPcs(i) == GetExecutionPlan(region_plan[i]).execution_plan

\* The number of steps of a stream whose program counter is below a bound
CountLess(step_pc, bound) ==
  Cardinality({k \in 1 .. Len(step_pc) : step_pc[k] < bound})

\* The step with index k (from 0) lies in an index range
InRange(range, k) == range.start <= k /\ k < range.end

\* C12: a GetProgramRegions call that directly follows a GetProgramRegions
\* call on the same window returns the region at the same position of the
\* cache, reads no execution plan and leaves the cache as it was.
C12_SecondCallHitsCache ==
  [][(pret.call = "GetProgramRegions" /\ pret'.call = "GetProgramRegions")
       => /\ pret'.index = pret.index
          /\ pret'.region = pret.region
          /\ pret'.plan_read = 0
          /\ program_regions_' = program_regions_
          /\ region_plan' = region_plan]_vars

C12_Witness ==
  /\ pret.call = "GetProgramRegions"
  /\ pret.plan_read = 0
  /\ pret.region = program_regions_[pret.index]
  /\ pret.region.start_pc = program_counter_start_
  /\ pret.region.end_pc = program_counter_end_

\* C13 (amended): for every cached region and every stream, start is the
\* number of steps with pc < start_pc; end is the number of steps with
\* pc < end_pc when start_pc <= end_pc and equals start otherwise; a step
\* index lies in [start, end) iff its pc lies in [start_pc, end_pc).  Window
\* [2, 7) over streams [0,2,5,9] and [1,3,7] gives [1,3) and [1,2).
C13_RangeIffPcInWindow ==
  \A i \in 1 .. Len(program_regions_) :
    LET region == program_regions_[i]
        plan == CachedStepPcs(i)
    IN /\ Len(region.stream_pc_range) = Len(plan)
       /\ \A s \in 1 .. Len(plan) :
            LET range == region.stream_pc_range[s]
            IN /\ range.start = CountLess(plan[s], region.start_pc)
               /\ range.end = IF region.start_pc <= region.end_pc
                                THEN CountLess(plan[s], region.end_pc)
                                ELSE range.start
               /\ \A k \in 1 .. Len(plan[s]) :
                    InRange(range, k - 1)
                      <=> (region.start_pc <= plan[s][k] /\ plan[s][k] < region.end_pc)
       /\ (region_plan[i] = 1 /\ region.start_pc = 2 /\ region.end_pc = 7)
            => region.stream_pc_range =
                 << [start |-> 1, end |-> 3], [start |-> 1, end |-> 2] >>

\* C13 as stated: end is the number of steps with pc < end_pc for every
\* window the instance can hold.
C13_EndIsCountBelowEndPc ==
  \A i \in 1 .. Len(program_regions_) :
    \A s \in 1 .. Len(CachedStepPcs(i)) :
      LET range == program_regions_[i].stream_pc_range[s]
      IN /\ range.start = CountLess(CachedStepPcs(i)[s], program_regions_[i].start_pc)
         /\ range.end = CountLess(CachedStepPcs(i)[s], program_regions_[i].end_pc)

C13_Witness ==
  \E i, j \in 1 .. Len(program_regions_) :
    /\ region_plan[i] = 1
    /\ program_regions_[i].start_pc = 2
    /\ program_regions_[i].end_pc = 7
    /\ program_regions_[i].stream_pc_range[1] = [start |-> 1, end |-> 3]
    /\ program_regions_[j].start_pc > program_regions_[j].end_pc
    /\ program_regions_[j].stream_pc_range[1].start > 0

\* C14: for two cached regions of one plan, the earlier for [s1, e1) and the
\* later for [s2, e2) with e1 <= s2, no step index of any stream lies in both
\* ranges; when also e1 = s2, s1 is at most every pc and e2 exceeds every
\* pc, every step of every stream lies in exactly one of the two ranges.
C14_DisjointAndCovering ==
  \A i, j \in 1 .. Len(program_regions_) :
    (i < j /\ region_plan[i] = region_plan[j]
       /\ program_regions_[i].end_pc <= program_regions_[j].start_pc)
    => LET plan == CachedStepPcs(i)
           first == program_regions_[i]
           second == program_regions_[j]
           AllPcs == UNION {{plan[s][k] : k \in 1 .. Len(plan[s])} : s \in 1 .. Len(plan)}
       IN \A s \in 1 .. Len(plan) :
            \A k \in 0 .. Len(plan[s]) - 1 :
              /\ ~(InRange(first.stream_pc_range[s], k)
                     /\ InRange(second.stream_pc_range[s], k))
              /\ (/\ first.end_pc = second.start_pc
                  /\ \A pc \in AllPcs : first.start_pc <= pc /\ pc < second.end_pc)
                 => (InRange(first.stream_pc_range[s], k)
                       \/ InRange(second.stream_pc_range[s], k))

C14_Witness ==
  /\ Len(program_regions_) >= 2
  /\ region_plan[1] = 1
  /\ region_plan[2] = 1
  /\ program_regions_[1].start_pc = 0
  /\ program_regions_[1].end_pc = 7
  /\ program_regions_[2].start_pc = 7
  /\ program_regions_[2].end_pc = 10
  /\ program_regions_[1].stream_pc_range[1] = [start |-> 0, end |-> 3]
  /\ program_regions_[2].stream_pc_range[1] = [start |-> 3, end |-> 4]

\* C15: in every step the cache keeps each region it held, at its position
\* and with its start_pc, end_pc and ranges, and its length does not
\* decrease.
C15_AppendOnly ==
  [][/\ Len(program_regions_') >= Len(program_regions_)
     /\ \A i \in 1 .. Len(program_regions_) :
          program_regions_'[i] = program_regions_[i]]_vars

C15_Witness ==
  /\ Len(program_regions_) >= 2
  /\ pret.call = "GetProgramRegions"
  /\ pret.plan_read # 0
  /\ pret.index = Len(program_regions_)
  /\ program_regions_[1] # program_regions_[2]

(***************************************************************************)
(* Claims about device streams and the execution context                   *)
(***************************************************************************)
\* C16 (amended): once a call has cached a collection, no later step invokes
\* AcquireDeviceStreamCollection or changes the cached collection; a call
\* invokes it at most once; every call that returns, returns the cached
\* collection; a call whose acquisition throws caches nothing.
C16_AcquireOnceCached ==
  [][/\ device_stream_collection_ # 0
          => /\ device_stream_collection_' = device_stream_collection_
             /\ session_streams'.acquired = session_streams.acquired
     /\ session_streams'.acquired <= session_streams.acquired + 1
     /\ (pret'.call = "GetDeviceStreamCollection" /\ pret'.status = "OK")
          => /\ pret'.collection # 0
             /\ pret'.collection = device_stream_collection_'
     /\ (pret'.call = "GetDeviceStreamCollection" /\ pret'.status = "exception")
          => device_stream_collection_' = device_stream_collection_]_vars

\* C16 as stated: AcquireDeviceStreamCollection is invoked at most once on
\* one instance.
C16_AcquireInvokedAtMostOnce == session_streams.acquired <= 1

C16_Witness ==
  /\ pret.call = "GetDeviceStreamCollection"
  /\ pret.status = "OK"
  /\ pret.collection = device_stream_collection_
  /\ session_streams.acquired = 2
  /\ execution_context_ # NoContext

\* C17: no collection is ever recycled into the session's pool; the cached
\* collection is not deleted while the instance is alive and is deleted once
\* the instance is destroyed.
C17_NeverRecycled ==
  /\ session_streams.recycled = {}
  /\ (instance = "alive" /\ device_stream_collection_ # 0)
       => device_stream_collection_ \notin session_streams.deleted
  /\ (instance = "destroyed" /\ device_stream_collection_ # 0)
       => session_streams.deleted = {device_stream_collection_}
  /\ device_stream_collection_ = 0 => session_streams.deleted = {}

C17_Witness ==
  /\ instance = "destroyed"
  /\ device_stream_collection_ # 0
  /\ device_stream_collection_ \in session_streams.deleted

\* C18: a GetExecutionContext call on an instance that has a context returns
\* that context, constructs nothing, sets its feeds, fetches and logger to
\* the arguments and leaves every other field of the context as it was; no
\* step of another kind changes the context.
C18_ResumptionUpdatesOnly ==
  [][execution_context_ # NoContext
       => IF pret'.call = "GetExecutionContext"
            THEN /\ execution_context_' =
                      [execution_context_ EXCEPT !.feeds = pret'.feeds,
                                                 !.fetches = pret'.fetches,
                                                 !.logger = pret'.logger]
                 /\ pret'.context = execution_context_.id
                 /\ ~pret'.constructed
            ELSE execution_context_' = execution_context_]_vars

C18_Witness ==
  /\ pret.call = "GetExecutionContext"
  /\ ~pret.constructed
  /\ pret.device_streams # execution_context_.device_streams
  /\ pret.feeds = execution_context_.feeds
  /\ execution_context_.id = 1

\* C19: every execution context the instance holds has the single-thread
\* flag set, after construction and after every resumption.
C19_SingleThread ==
  execution_context_ # NoContext => execution_context_.single_thread = TRUE

C19_Witness ==
  /\ execution_context_ # NoContext
  /\ execution_context_.single_thread
  /\ execution_context_.valid_streams > 1
  /\ pret.call = "GetExecutionContext"
  /\ pret.constructed

(***************************************************************************)
(* Claim about concurrent lookups                                          *)
(***************************************************************************)
\* C11 as stated: while a lookup is in the middle of a write of the
\* type-string resolver, no lookup of another thread is in the middle of a
\* read or a write of it.
C11_NoConflictingAccess ==
  \A t, u \in ReaderThreads :
    (t # u /\ readers[t].pc \in ResolverWrites)
      => readers[u].pc \notin ResolverReads \cup ResolverWrites

(***************************************************************************)
(* Further claims about the region cache                                   *)
(***************************************************************************)
\* A program counter lies in the window of a region
InWindow(region, pc) == region.start_pc <= pc /\ pc < region.end_pc

\* C21: for two cached regions computed from one plan, every step whose pc
\* lies in both windows lies in the index ranges of both regions; the call
\* returns the region, with no error, whatever is cached already.
C21_NoDeduplication ==
  /\ \A i, j \in 1 .. Len(program_regions_) :
       (i # j /\ region_plan[i] = region_plan[j])
       => \A s \in 1 .. Len(CachedStepPcs(i)) :
            \A k \in 1 .. Len(CachedStepPcs(i)[s]) :
              (InWindow(program_regions_[i], CachedStepPcs(i)[s][k])
                 /\ InWindow(program_regions_[j], CachedStepPcs(i)[s][k]))
              => (InRange(program_regions_[i].stream_pc_range[s], k - 1)
                    /\ InRange(program_regions_[j].stream_pc_range[s], k - 1))
  /\ pret.call = "GetProgramRegions"
       => (pret.index \in 1 .. Len(program_regions_)
             /\ pret.region = program_regions_[pret.index])

C21_Witness ==
  /\ Len(program_regions_) >= 2
  /\ region_plan[1] = 1
  /\ region_plan[2] = 1
  /\ program_regions_[1].start_pc = 0
  /\ program_regions_[1].end_pc = 7
  /\ program_regions_[2].start_pc = 2
  /\ program_regions_[2].end_pc = 10
  /\ InRange(program_regions_[1].stream_pc_range[1], 1)
  /\ InRange(program_regions_[2].stream_pc_range[1], 1)
  /\ pret.call = "GetProgramRegions"
  /\ pret.index = 2

\* C22: a GetDeviceStreamCollection call whose acquisition throws reports
\* the exception to its caller, caches no collection, and leaves the cached
\* regions, the cached execution context, the window and the instance as
\* they were.
C22_FailureKeepsState ==
  [][(/\ pret'.call = "GetDeviceStreamCollection"
      /\ pret'.status = "exception"
      /\ session_streams' # session_streams)
       => /\ device_stream_collection_ = 0
          /\ device_stream_collection_' = 0
          /\ pret'.collection = 0
          /\ program_regions_' = program_regions_
          /\ region_plan' = region_plan
          /\ execution_context_' = execution_context_
          /\ program_counter_start_' = program_counter_start_
          /\ program_counter_end_' = program_counter_end_
          /\ instance' = instance]_vars

C22_Witness ==
  /\ pret.call = "GetDeviceStreamCollection"
  /\ pret.status = "exception"
  /\ device_stream_collection_ = 0
  /\ Len(program_regions_) >= 1
  /\ execution_context_ # NoContext

\* Two cached regions of one plan whose windows are [a, b) and [b, c)
Contiguous(i, j) ==
  /\ i # j
  /\ region_plan[i] = region_plan[j]
  /\ program_regions_[i].end_pc = program_regions_[j].start_pc

\* C23 (amended): for cached regions of one plan with windows [a, b) and
\* [b, c) where a <= b, in every stream the end index of the first equals the
\* start index of the second, whether b labels no step, one step or several
\* steps of the stream.
C23_ContiguousWindowsMeet ==
  \A i, j \in 1 .. Len(program_regions_) :
    (Contiguous(i, j) /\ program_regions_[i].start_pc <= program_regions_[i].end_pc)
    => \A s \in 1 .. Len(CachedStepPcs(i)) :
         program_regions_[i].stream_pc_range[s].end
           = program_regions_[j].stream_pc_range[s].start

\* C23 as stated: the end index of [a, b) equals the start index of [b, c)
\* for every pair of cached windows that share the boundary b.
C23_BoundaryIndexShared ==
  \A i, j \in 1 .. Len(program_regions_) :
    Contiguous(i, j)
    => \A s \in 1 .. Len(CachedStepPcs(i)) :
         program_regions_[i].stream_pc_range[s].end
           = program_regions_[j].stream_pc_range[s].start

\* Windows [0, 2) and [2, 7) on the plan whose first stream has two steps at
\* pc 2 and whose second stream has no step.
C23_Witness ==
  \E i, j \in 1 .. Len(program_regions_) :
    /\ Contiguous(i, j)
    /\ region_plan[i] = 2
    /\ program_regions_[i].start_pc = 0
    /\ program_regions_[i].end_pc = 2
    /\ program_regions_[j].end_pc = 7
    /\ program_regions_[i].stream_pc_range[1] = [start |-> 0, end |-> 1]
    /\ program_regions_[j].stream_pc_range[1] = [start |-> 1, end |-> 3]
    /\ program_regions_[j].stream_pc_range[3] = [start |-> 0, end |-> 0]

\* C24: every cached region holds one index range per stream of the plan it
\* was computed from, the range of stream s at position s, and each range
\* satisfies 0 <= start <= end <= number of steps of the stream.
C24_RegionsWellFormed ==
  \A i \in 1 .. Len(program_regions_) :
    /\ Len(program_regions_[i].stream_pc_range) = Len(CachedStepPcs(i))
    /\ \A s \in 1 .. Len(CachedStepPcs(i)) :
         LET range == program_regions_[i].stream_pc_range[s]
         IN /\ 0 <= range.start
            /\ range.start <= range.end
            /\ range.end <= Len(CachedStepPcs(i)[s])
            /\ range = StreamRange(CachedStepPcs(i)[s], program_regions_[i].start_pc,
                                    program_regions_[i].end_pc)

\* A region of the three-stream plan whose second stream has no step and
\* whose third stream has no step in the window
C24_Witness ==
  \E i \in 1 .. Len(program_regions_) :
    /\ region_plan[i] = 2
    /\ Len(program_regions_[i].stream_pc_range) = 3
    /\ program_regions_[i].stream_pc_range[1].start < program_regions_[i].stream_pc_range[1].end
    /\ program_regions_[i].stream_pc_range[2] = [start |-> 0, end |-> 0]
    /\ program_regions_[i].stream_pc_range[3] = [start |-> 0, end |-> 0]

\* C25: a cached region whose window has start_pc >= end_pc has an empty
\* range on every stream; a call on such a window returns a region of the
\* cache for that window.
C25_EmptyWindowEmptyRanges ==
  /\ \A i \in 1 .. Len(program_regions_) :
       program_regions_[i].start_pc >= program_regions_[i].end_pc
       => /\ Len(program_regions_[i].stream_pc_range) = Len(CachedStepPcs(i))
          /\ \A s \in 1 .. Len(CachedStepPcs(i)) :
               program_regions_[i].stream_pc_range[s].start
                 = program_regions_[i].stream_pc_range[s].end
  /\ (pret.call = "GetProgramRegions"
        /\ program_counter_start_ >= program_counter_end_)
       => /\ pret.index \in 1 .. Len(program_regions_)
          /\ program_regions_[pret.index] = pret.region
          /\ pret.region.start_pc = program_counter_start_
          /\ pret.region.end_pc = program_counter_end_

\* An inverted window past steps of the stream, and an empty one, both cached
C25_Witness ==
  \E i, j \in 1 .. Len(program_regions_) :
    /\ program_regions_[i].start_pc > program_regions_[i].end_pc
    /\ program_regions_[i].stream_pc_range[1].start > 0
    /\ program_regions_[j].start_pc = program_regions_[j].end_pc
    /\ program_regions_[j].start_pc > 0
    /\ pret.call = "GetProgramRegions"
    /\ pret.plan_read # 0

\* C26: in every state no two cached regions have the same (start_pc,
\* end_pc) and the region a GetProgramRegions call returned has the
\* instance's window as its key; a step that is a GetProgramRegions call
\* leaves the window as it was.
C26_OneRegionPerKey ==
  /\ [](/\ \A i, j \in 1 .. Len(program_regions_) :
            (program_regions_[i].start_pc = program_regions_[j].start_pc
               /\ program_regions_[i].end_pc = program_regions_[j].end_pc)
            => i = j
        /\ pret.call = "GetProgramRegions"
            => /\ pret.region.start_pc = program_counter_start_
               /\ pret.region.end_pc = program_counter_end_)
  /\ [][(pret'.call = "GetProgramRegions" /\ pret' # pret)
         => /\ program_counter_start_' = program_counter_start_
            /\ program_counter_end_' = program_counter_end_]_vars

\* Two regions that share start_pc and differ in end_pc; the later returned
C26_Witness ==
  /\ Len(program_regions_) >= 2
  /\ program_regions_[1].start_pc = program_regions_[2].start_pc
  /\ program_regions_[1].end_pc # program_regions_[2].end_pc
  /\ pret.call = "GetProgramRegions"
  /\ pret.index = 2

\* C27: on a cache hit the ranges returned are those computed from the plan
\* of the session state passed when the window was first requested, also
\* when the session state passed now has another plan.
C27_HitReturnsFirstPlan ==
  (pret.call = "GetProgramRegions" /\ pret.plan_read = 0)
  => /\ pret.region = program_regions_[pret.index]
     /\ pret.region =
          NewRegion(GetExecutionPlan(region_plan[pret.index]),
                    program_counter_start_, program_counter_end_)

\* A hit with a session state whose plan would give other ranges
C27_Witness ==
  /\ pret.call = "GetProgramRegions"
  /\ pret.plan_read = 0
  /\ pret.session_state # region_plan[pret.index]
  /\ pret.region # NewRegion(GetExecutionPlan(pret.session_state),
                              program_counter_start_, program_counter_end_)

(***************************************************************************)
(* Claims about the fused attention kernel lists                           *)
(***************************************************************************)
\* The meta entries of one sm, data type and key that pass both
\* shared-memory checks on a device
LoadableEntries(type, sm, key, device) ==
  {i \in 1 .. Len(KernelMetaTable) :
     /\ KernelMetaTable[i].mSM = sm
     /\ KernelMetaTable[i].mDataType = type
     /\ hashIDOfMeta(KernelMetaTable[i]) = key
     /\ ~NotEnoughSharedMemory(KernelMetaTable[i], device)
     /\ ~SetAttributeFails(KernelMetaTable[i], device)}

\* The smallest element of a non-empty set of indexes
FirstOf(indexes) == CHOOSE i \in indexes : \A j \in indexes : i <= j

\* C29 (amended): after loadXMMAKernels() has loaded a list, each (s, d) key
\* is registered from the first meta entry of the list's sm and data type
\* with that key that is not skipped; on an sm_86 list, when there is no
\* such entry, from the first sm_80 entry with that key that is not skipped;
\* otherwise the key is not registered.  No other sm contributes.
C29_PreferOwnSmThenSm80 ==
  (kret.call = "loadXMMAKernels" /\ kret.loaded)
  => /\ \A s \in SequenceLengths, d \in HeadSizes :
          LET own == LoadableEntries(xmma_kernel.mDataType, xmma_kernel.mSM,
                                     hashID(s, d), kret.device)
              sm80 == LoadableEntries(xmma_kernel.mDataType, kSM_80,
                                      hashID(s, d), kret.device)
              got == FindFunction(xmma_kernel.mFunctions, hashID(s, d))
          IN IF own # {}
               THEN got = {[key |-> hashID(s, d), mMetaInfoIndex |-> FirstOf(own) - 1]}
             ELSE IF xmma_kernel.mSM = kSM_86 /\ sm80 # {}
               THEN got = {[key |-> hashID(s, d), mMetaInfoIndex |-> FirstOf(sm80) - 1]}
             ELSE got = {}
     /\ \A f \in xmma_kernel.mFunctions :
          HighWord(f.key) \in SequenceLengths /\ LowWord(f.key) \in HeadSizes

\* C29 as stated: a registered function comes from the first meta entry of
\* its sm pass that has its key.
C29_FirstMetaEntryWins ==
  \A f \in xmma_kernel.mFunctions :
    LET kernelMeta == KernelMetaTable[f.mMetaInfoIndex + 1]
    IN f.mMetaInfoIndex + 1 =
         FirstOf({i \in 1 .. Len(KernelMetaTable) :
                    /\ KernelMetaTable[i].mSM = kernelMeta.mSM
                    /\ KernelMetaTable[i].mDataType = xmma_kernel.mDataType
                    /\ hashIDOfMeta(KernelMetaTable[i]) = f.key})

\* An sm_86 list with an sm_86 kernel, an sm_80 kernel where no sm_86 kernel
\* has the key, and a key whose first sm_86 entry was skipped
C29_Witness ==
  /\ kret.call = "loadXMMAKernels"
  /\ kret.loaded
  /\ xmma_kernel.mSM = kSM_86
  /\ [key |-> hashID(64, 64), mMetaInfoIndex |-> 0] \in xmma_kernel.mFunctions
  /\ [key |-> hashID(128, 64), mMetaInfoIndex |-> 2] \in xmma_kernel.mFunctions
  /\ [key |-> hashID(256, 64), mMetaInfoIndex |-> 5] \in xmma_kernel.mFunctions

\* C30: isValid(s) holds iff a registered function has sequence length s;
\* a meta entry skipped by a shared-memory check is not registered; run finds
\* a function iff (params.s, params.d) is registered.
C30_ValidIffRegistered ==
  /\ \A s \in SequenceLengths :
       isValid(xmma_kernel, s) <=> (\E f \in xmma_kernel.mFunctions : HighWord(f.key) = s)
  /\ xmma_kernel.mValidSequences \subseteq SequenceLengths
  /\ kret.call = "isValid"
       => (kret.result <=> (\E f \in xmma_kernel.mFunctions : HighWord(f.key) = kret.s))
  /\ kret.call = "run"
       => ((kret.status = "OK")
             <=> (\E f \in xmma_kernel.mFunctions : f.key = hashID(kret.s, kret.d)))
  /\ (kret.call = "loadXMMAKernels" /\ kret.loaded)
       => \A i \in 1 .. Len(KernelMetaTable) :
            (NotEnoughSharedMemory(KernelMetaTable[i], kret.device)
               \/ SetAttributeFails(KernelMetaTable[i], kret.device))
            => [key |-> hashIDOfMeta(KernelMetaTable[i]), mMetaInfoIndex |-> i - 1]
                 \notin xmma_kernel.mFunctions
  /\ kret.call = "loadXMMAKernels(smVersion)"
       => \A f \in xmma_kernel.mFunctions \ kret.before :
            LET kernelMeta == KernelMetaTable[f.mMetaInfoIndex + 1]
            IN /\ ~NotEnoughSharedMemory(kernelMeta, kret.device)
               /\ ~SetAttributeFails(kernelMeta, kret.device)
               /\ kernelMeta.mSM = kret.smVersion

\* run fails for a head size that is not registered although the sequence
\* length is valid
C30_Witness ==
  /\ kret.call = "run"
  /\ kret.status = "exception"
  /\ isValid(xmma_kernel, kret.s)
  /\ \E f \in xmma_kernel.mFunctions : HighWord(f.key) = kret.s /\ LowWord(f.key) # kret.d

(***************************************************************************)
(* Claims about the kernel list factory                                    *)
(***************************************************************************)

\* The calls that have returned a kernel list.
ReturnedCallers ==
  {t \in CallerThreads : callers[t].status = "returned" /\ callers[t].pc = "idle"}
SameKey(t, u) ==
  /\ callers[t].type = callers[u].type
  /\ callers[t].device = callers[u].device
  /\ callers[t].sm = callers[u].sm

\* C28: under any interleaving of getXMMAKernels calls, at most one kernel
\* list is ever constructed for a (data type, current device, sm) key; a call
\* that returned holds a pointer to the live list constructed and loaded for
\* its key, which is the one stored in mKernels; two returned calls hold the
\* same pointer iff their keys are equal; and an entry of mKernels, with the
\* list it points to, is never replaced or removed.
C28_BuiltOnceAndReused ==
  /\ [](/\ \A p, q \in DOMAIN kernel_lists :
              kernel_lists[p].id = kernel_lists[q].id => p = q
        /\ \A e, f \in mKernels : e.id = f.id => e = f
        /\ \A t \in ReturnedCallers :
              LET c == callers[t]
              IN /\ c.result \in DOMAIN kernel_lists
                 /\ kernel_lists[c.result].live
                 /\ kernel_lists[c.result].id =
                      FactoryHashID(c.type, c.device, c.sm).id
                 /\ kernel_lists[c.result].list =
                      loadXMMAKernels(NewKernelList(c.type, c.sm),
                                      DeviceProperties(c.device))
                 /\ [id |-> kernel_lists[c.result].id, ptr |-> c.result]
                      \in mKernels
        /\ \A t, u \in ReturnedCallers :
              SameKey(t, u) <=> callers[t].result = callers[u].result)
  /\ [][/\ mKernels \subseteq mKernels'
        /\ \A e \in mKernels :
              /\ e.ptr \in DOMAIN kernel_lists'
              /\ kernel_lists'[e.ptr] = kernel_lists[e.ptr]]_vars

\* Both threads have returned the same list for one key while a second list
\* exists for another key.
C28_Witness ==
  /\ ReturnedCallers = CallerThreads
  /\ SameKey(1, 2)
  /\ callers[1].result = callers[2].result
  /\ Len(kernel_lists) = 2
  /\ Cardinality(mKernels) = 2

(***************************************************************************)
(* Claims about the cache keys                                             *)
(***************************************************************************)

\* C31: the factory's hashID accepts exactly the inputs with type and
\* deviceID in 0 .. 2^16 - 1 (every sm fits 32 bits), and two accepted calls
\* with different (type, deviceID, sm) return different keys; two calls of
\* the kernel list's hashID with different 32-bit (s, d) return different
\* keys.
C31_KeysInjective ==
  /\ kret.call = "factory hashID" =>
       \A i, j \in DOMAIN kret.results :
          LET a == kret.results[i]
              b == kret.results[j]
          IN /\ a.ok <=> (a.type \in 0 .. 65535 /\ a.deviceID \in 0 .. 65535)
             /\ (/\ a.ok
                 /\ b.ok
                 /\ <<a.type, a.deviceID, a.sm>> # <<b.type, b.deviceID, b.sm>>)
                => a.id # b.id
  /\ kret.call = "kernel hashID" =>
       \A i, j \in DOMAIN kret.results :
          LET a == kret.results[i]
              b == kret.results[j]
          IN <<a.s, a.d>> # <<b.s, b.d>> => a.id # b.id

\* An accepted call, and before it a rejected call whose shifted operands
\* would have made the same 64-bit value.
C31_Witness ==
  /\ kret.call = "factory hashID"
  /\ Len(kret.results) = 2
  /\ kret.results[1].ok
  /\ ~kret.results[2].ok
  /\ KeyOf(kret.results[2].type, kret.results[2].deviceID, kret.results[2].sm)
       = kret.results[1].id

(***************************************************************************)
(* Claims about ConstantSharing                                            *)
(***************************************************************************)

\* Whether two initializers hold the same number: a half is the number its
\* bits stand for, every other datum the whole number stored; a NaN is no
\* number.
SameValue(tx, ty) ==
  LET ValueOf(tensor) ==
        IF tensor.data_type = "FLOAT16" THEN halfToFloat(tensor.raw)
        ELSE FloatOfInteger(tensor.raw)
  IN FloatEquals(ValueOf(tx), ValueOf(ty))

\* The shared initializer that replaced an initializer in the last pass.
SharedOf(name) ==
  (CHOOSE e \in {applied.replaced[i] : i \in DOMAIN applied.replaced} :
     e.origin = name).shared
ReplacedNames ==
  {applied.replaced[i].origin : i \in DOMAIN applied.replaced}

\* C32: after ApplyImpl, two initializers replaced by the same shared
\* initializer have the same data type, the same value and the same rank.
C32_SharedOnlyIfSameTypeValueRank ==
  applied.call = "ApplyImpl" =>
    \A x, y \in ReplacedNames :
       (x # y /\ SharedOf(x) = SharedOf(y)) =>
         LET tx == applied.before.initialized_tensors[x]
             ty == applied.before.initialized_tensors[y]
         IN /\ tx.data_type = ty.data_type
            /\ SameValue(tx, ty)
            /\ Len(tx.shape.dims) = Len(ty.shape.dims)

\* The nodes of a graph with the name among their explicit inputs, and among
\* their implicit inputs.
ExplicitUsers(g, name) ==
  {n \in DOMAIN g.input_defs :
     \E i \in DOMAIN g.input_defs[n] : g.input_defs[n][i] = name}
ImplicitUsers(g, name) ==
  {n \in DOMAIN g.implicit_input_defs :
     \E i \in DOMAIN g.implicit_input_defs[n] :
        g.implicit_input_defs[n][i] = name}

\* The conditions under which ConstantSharing is to leave an initializer
\* alone, on the graph before the pass.
LeftAlone(g, name) ==
  LET tensor == g.initialized_tensors[name]
  IN \/ GetConsumerNodes(g, name) \cap ImplicitUsers(g, name) # {}
     \/ GetConsumerNodes(g, name) \cap ExplicitUsers(g, name) = {}
     \/ ~(/\ tensor.shape.has_shape
          /\ tensor.shape.dims \in {<<>>, <<1>>})
     \/ tensor.data_type \notin {"FLOAT", "FLOAT16", "DOUBLE", "INT32", "INT64"}
     \/ name \in excluded_initializers_

\* C33 as stated: an initializer with a consumer that uses it as an implicit
\* input, or with no consumer input port, or whose shape is neither rank 0
\* nor [1], or whose data type is not one of the five, or whose name is
\* excluded, is after ApplyImpl still in the graph with the same tensor and
\* the same consumers, and every one of its consumers has the inputs it had.
C33_SkippedConsumersUnchanged ==
  applied.call = "ApplyImpl" =>
    \A name \in DOMAIN applied.before.initialized_tensors :
       LeftAlone(applied.before, name) =>
         /\ name \in DOMAIN graph.initialized_tensors
         /\ graph.initialized_tensors[name]
              = applied.before.initialized_tensors[name]
         /\ GetConsumerNodes(graph, name)
              = GetConsumerNodes(applied.before, name)
         /\ \A n \in GetConsumerNodes(applied.before, name) :
               /\ graph.input_defs[n] = applied.before.input_defs[n]
               /\ graph.implicit_input_defs[n]
                    = applied.before.implicit_input_defs[n]

\* C33, amended: such an initializer is after ApplyImpl still in the graph
\* with the same tensor, is not replaced, has the same consumers, and every
\* explicit and implicit input that was the initializer still is; another
\* input of one of its consumers may have been redirected.
C33_SkippedInitializersUntouched ==
  applied.call = "ApplyImpl" =>
    \A name \in DOMAIN applied.before.initialized_tensors :
       LeftAlone(applied.before, name) =>
         /\ name \in DOMAIN graph.initialized_tensors
         /\ graph.initialized_tensors[name]
              = applied.before.initialized_tensors[name]
         /\ name \notin ReplacedNames
         /\ GetConsumerNodes(graph, name)
              = GetConsumerNodes(applied.before, name)
         /\ \A n \in DOMAIN graph.input_defs :
               /\ \A i \in DOMAIN graph.input_defs[n] :
                     applied.before.input_defs[n][i] = name
                       => graph.input_defs[n][i] = name
               /\ graph.implicit_input_defs[n]
                    = applied.before.implicit_input_defs[n]

\* A pass that replaced something and left a alone only because a subgraph
\* of node 2 reads it: a is a shareable FLOAT scalar and an explicit input of
\* node 1.
C33_Witness ==
  /\ applied.call = "ApplyImpl"
  /\ applied.replaced # <<>>
  /\ applied.modified
  /\ applied.before.initialized_tensors["a"] = TensorOf("FLOAT", 1, <<>>)
  /\ 1 \in ExplicitUsers(applied.before, "a")
  /\ 2 \in ImplicitUsers(applied.before, "a")
  /\ excluded_initializers_ = {}
  /\ "a" \notin ReplacedNames
  /\ graph.input_defs[1] # applied.before.input_defs[1]

\* C34: for every initializer replaced by ApplyImpl, every input port that
\* held it holds the shared initializer afterwards, every node that had it
\* as an input is recorded as a consumer of the shared initializer (the
\* record is a set, so once) and not as a consumer of the original, and the
\* original is gone from the graph iff no consumer of it is left.
C34_ConsumersMovedToShared ==
  applied.call = "ApplyImpl" =>
    \A name \in ReplacedNames :
       /\ \A n \in DOMAIN graph.input_defs :
             /\ \A i \in DOMAIN graph.input_defs[n] :
                   applied.before.input_defs[n][i] = name
                     => graph.input_defs[n][i] = SharedOf(name)
             /\ n \in ExplicitUsers(applied.before, name)
                  => /\ n \in GetConsumerNodes(graph, SharedOf(name))
                     /\ n \notin GetConsumerNodes(graph, name)
       /\ GetConsumerNodes(graph, SharedOf(name))
            = ExplicitUsers(graph, SharedOf(name))
       /\ name \notin DOMAIN graph.initialized_tensors
            <=> GetConsumerNodes(graph, name) = {}
       /\ SharedOf(name) \in DOMAIN graph.initialized_tensors

\* Node 1 read a and b, both were replaced by one shared initializer, and
\* both are gone from the graph.
C34_Witness ==
  /\ applied.call = "ApplyImpl"
  /\ applied.before.input_defs[1] = <<"a", "b">>
  /\ {"a", "b"} \subseteq ReplacedNames
  /\ SharedOf("a") = SharedOf("b")
  /\ graph.input_defs[1] = <<SharedOf("a"), SharedOf("a")>>
  /\ GetConsumerNodes(graph, SharedOf("a")) = {1}
  /\ {"a", "b"} \cap DOMAIN graph.initialized_tensors = {}

\* C35: no call of ApplyImpl ends in the default branch of the data type
\* dispatch: the pass always returns Status::OK.
C35_DispatchDefaultUnreachable ==
  applied.call = "ApplyImpl" => applied.status = "OK"

\* A pass over a graph whose initializer b is a BOOL scalar read by node 1
\* only as an explicit input and not excluded, in which another initializer
\* went through the dispatch and was replaced.
C35_Witness ==
  /\ applied.call = "ApplyImpl"
  /\ applied.before.initialized_tensors["b"] = TensorOf("BOOL", 1, <<>>)
  /\ 1 \in ExplicitUsers(applied.before, "b")
  /\ ImplicitUsers(applied.before, "b") = {}
  /\ excluded_initializers_ = {}
  /\ \E i \in DOMAIN applied.order : applied.order[i] = "b"
  /\ applied.replaced # <<>>
  /\ applied.status = "OK"
  /\ "b" \in DOMAIN graph.initialized_tensors

=============================================================================
